---- MODULE Spec2Model ----
(***************************************************************************)
(* Model of bombcell/quality_metrics.py: duplicate spike removal, the      *)
(* refractory-period-violation estimator, the good-time-chunk selector and *)
(* the unit classifier.                                                    *)
(*                                                                         *)
(* Python arrays are 0-based; TLA+ sequences are 1-based.  Operators that  *)
(* follow the loops of the source keep the 0-based indices of the source   *)
(* and add 1 only where a sequence is read or written.                     *)
(***************************************************************************)
EXTENDS Integers, Sequences, FiniteSets, TLC

VARIABLES
    \* ---- one call of remove_duplicates on one batch -------------------
    b_pc,            \* "in": batch drawn, "out": remove_duplicates returned
    b_times,         \* spike_times_samples[start_idx:end_idx] (integers)
    b_clusters,      \* batch_spike_clusters
    b_amps,          \* batch_template_amplitudes
    b_remove,        \* the returned remove_idx (<< >> before the call)
    \* ---- remove_duplicate_spikes --------------------------------------
    d_pc,            \* "off", "call", "batches", "finish", "done", "none"
    d_call,          \* number of the current call (1, 2)
    d_times,         \* spike_times_samples of the current call
    d_clusters,      \* spike_clusters
    d_amps,          \* template_amplitudes
    d_peak,          \* peak_channels
    d_param,         \* remove_duplicate_spike, recompute_duplicate_spike,
                     \* save_spike_without_duplicates
    d_file,          \* spikes._bc_duplicateSpikes.npy in save_path
    d_starts,        \* start_idxs still to process
    d_mask,          \* duplicate_spike_idx
    d_out,           \* the returned pruned arrays
    d_hist,          \* bookkeeping on the current call, read by the properties
    \* ---- fraction_RP_violations ---------------------------------------
    r_pc,            \* "off", "loop", "done"
    r_spikes,        \* these_spike_times (a set of distinct times, seconds)
    r_param,         \* use_hill_method, tauC, tauR_values_min/max/steps
    r_use_this_tauR, \* [given |-> FALSE] (None) or [given |-> TRUE, idx |-> i]
    r_cell,          \* <<time_chunk_idx, i_tau_r>> of the next cell (0-based)
    fraction_RPVs,   \* [chunk][tauR] in units of 1/Scale
    num_violations,  \* [chunk][tauR]
    overestimate_bool,  \* [chunk][tauR], local to fraction_RP_violations
    \* ---- time_chunks_to_keep ------------------------------------------
    k_pc,            \* "off", "in", "out"
    k_time_chunks,   \* time_chunks: the n + 1 edges of the n chunks
    k_missing,       \* percent_missing_gaussian, one value per chunk
    k_fraction,      \* fraction_RPVs [chunk][tauR]
    k_spikes,        \* these_spike_times, the unit's spikes in time order
    k_amplitudes,    \* these_amplitudes, one per spike of the unit
    k_clusters,      \* spike_clusters, the caller's array over all spikes
    k_seconds,       \* spike_times_seconds, the caller's array over all spikes
    k_out,           \* the returned tuple (a record)
    \* ---- get_quality_unit_type (one unit) ------------------------------
    q_pc,            \* "off", "in", "out"
    q_param,         \* param
    q_metrics,       \* quality_metrics, the unit's entry of every array
    unit_type,       \* returned code, NaN before the call
    unit_type_string, \* returned label
    \* ---- perc_spikes_missing ------------------------------------------
    m_pc,            \* "off", "loop", "returned", "raised"
    m_hist,          \* per chunk: spike_counts_per_amp_bin, << >> when the
                     \* chunk has no spike
    m_idx,           \* time_chunk_idx
    percent_missing_gaussian,  \* one value per chunk
    m_failed,        \* chunks whose curve_fit did not converge (history)
    \* ---- waveform_shape (one unit) -------------------------------------
    s_pc,            \* "off", "peaks", "decay", "baseline", "returned", "raised"
    s_waveform,      \* this_waveform; << >> stands for one with a NaN sample
    s_param,         \* param (compute_spatial_decay is written back)
    s_geometry,      \* what the call read of channel_positions
    s_window,        \* what the call read of waveform_baseline_window
    s_locals,        \* the peak and trough variables after line 1202
    s_slope,         \* spatial_decay_slope
    s_baseline,      \* waveform_baseline
    s_error,         \* the exception that left the call, "none" otherwise
    \* ---- max_drift_estimate (one unit) ---------------------------------
    dr_pc,           \* "off", "bins", "loop", "returned"
    dr_times,        \* these_spike_times, whole time units
    dr_depth,        \* spike_depth_in_channels of each spike
    dr_param,        \* param: drift_bin_size, whole time units
    drift_bin_size,  \* the local drift_bin_size, in half time units
    time_bins,       \* np.arange edges, in half time units
    median_spike_depth,  \* twice the median depth of each bin, NaN if empty
    dr_i,            \* bins filled so far
    dr_out,          \* the returned pair, in half depth units
    \* ---- waveform_shape for several units sharing param ----------------
    u_param,         \* the shared param object
    u_param0,        \* param as it was before the first call (history)
    u_rows_close,    \* channel rows less than 30 apart (the geometry)
    u_window,        \* "nan" or "samples": waveform_baseline_window
    u_unit,          \* per unit: the call's position, inputs and locals
    u_writes,        \* every <<old, new>> written to compute_spatial_decay
    \* ---- presence_ratio (one unit) -------------------------------------
    pr_pc,           \* "off", "in", "out"
    pr_times,        \* these_spike_times (a set of times)
    pr_span,         \* use_this_time_start and use_this_time_end
    pr_param,        \* param: presence_ratio_bin_size
    spikes_per_bin,  \* the spikes counted in each bin
    pr_ratio,        \* the returned ratio as [num, den]
    \* ---- get_distance_metrics (one target unit) ------------------------
    g_pc,            \* "off", "loop", "finish", "done", "raised" (in the loop)
    g_counts,        \* spikes of each unit in spike_clusters
    pc_features_idx, \* the channels of each unit's features
    this_unit,
    g_ids,           \* the unique_ids still to visit
    other_features_ind, \* per row and channel_idx: the unit written, or NaN
    other_features,  \* the rows kept for the Mahalanobis computation
    n_count,
    g_out            \* isolation_dist, L_ratio, the read and any exception

batchVars == <<b_pc, b_times, b_clusters, b_amps, b_remove>>

dupVars == <<d_pc, d_call, d_times, d_clusters, d_amps, d_peak, d_param,
             d_file, d_starts, d_mask, d_out, d_hist>>

rpvVars == <<r_pc, r_spikes, r_param, r_use_this_tauR, r_cell,
             fraction_RPVs, num_violations, overestimate_bool>>

keepVars ==
    <<k_pc, k_time_chunks, k_missing, k_fraction, k_spikes, k_amplitudes,
      k_clusters, k_seconds, k_out>>

typeVars == <<q_pc, q_param, q_metrics, unit_type, unit_type_string>>

missVars == <<m_pc, m_hist, m_idx, percent_missing_gaussian, m_failed>>

shapeVars ==
    <<s_pc, s_waveform, s_param, s_geometry, s_window, s_locals, s_slope,
      s_baseline, s_error>>

driftVars ==
    <<dr_pc, dr_times, dr_depth, dr_param, drift_bin_size, time_bins,
      median_spike_depth, dr_i, dr_out>>

sharedVars == <<u_param, u_param0, u_rows_close, u_window, u_unit, u_writes>>

presenceVars == <<pr_pc, pr_times, pr_span, pr_param, spikes_per_bin, pr_ratio>>

distVars == <<g_pc, g_counts, pc_features_idx, this_unit, g_ids,
              other_features_ind, other_features, n_count, g_out>>

vars ==
    <<batchVars, dupVars, rpvVars, keepVars, typeVars, missVars, shapeVars,
      driftVars, sharedVars, presenceVars, distVars>>

(***************************************************************************)
(* Small helpers                                                           *)
(***************************************************************************)
Abs(x) == IF x < 0 THEN -x ELSE x

Min2(a, b) == IF a < b THEN a ELSE b

RECURSIVE SumTo(_, _)
SumTo(f, k) == IF k = 0 THEN 0 ELSE f[k] + SumTo(f, k - 1)

(***************************************************************************)
(* Bounds of the model                                                     *)
(***************************************************************************)
MaxBatchLen == 4     \* longest batch drawn for a single remove_duplicates call
MaxSpikes == 5       \* longest spike train given to remove_duplicate_spikes
MaxCalls == 2        \* calls of remove_duplicate_spikes in one behaviour
MaxChunks == 4       \* most time chunks of a unit in time_chunks_to_keep
MaxMissChunks == 2   \* most time chunks given to perc_spikes_missing
MaxCount == 3        \* most spikes in one amplitude bin
WaveLen == 6         \* samples of a waveform given to waveform_shape
MaxTime == 5         \* latest spike time given to max_drift_estimate
MaxBin == 3          \* largest param["drift_bin_size"]
NumUnits == 2        \* units whose waveform_shape calls share one param
MaxSpan == 6         \* latest use_this_time_end given to presence_ratio
MaxUnitSpikes == 8   \* most spikes of one unit given to get_distance_metrics
Scale == 100         \* fractions are held in units of 1/Scale

(***************************************************************************)
(* Inputs of the duplicate resolver                                        *)
(***************************************************************************)
Clusters == {0, 1, 2}            \* unit ids present in spike_clusters
Amps == {1, 2}                   \* template amplitudes
Gaps == {0, 1}                   \* steps between consecutive spike times (samples)
\* first spike time of a train: 0, or 2^24 where float32 stops being exact
TimeBases == {0, 16777216}
\* peak channel of each unit: units 0 and 1 share a channel, unit 2 does not
ChannelOf == [c \in Clusters |-> IF c = 2 THEN 1 ELSE 0]

\* param["duplicate_spikes_window_s"] * param["ephys_sample_rate"]; the
\* default 0.00001 s * 30000 Hz = 0.3 samples admits only equal sample times
duplicate_spike_window_samples == 0

\* range(spike_idx1 - 25, min(spike_idx1 + 25, num_spikes)); the radius is
\* scaled down from 25 so that batches longer than the radius can be drawn
Radius == 2

\* batch_size = 10000 and overlap_size = 100, scaled down with the radius
\* (radius <= overlap_size < batch_size as in the source)
batch_size == 4
overlap_size == 2

\* np.nan written into batch_spike_times_samples for a removed spike
NaN == -1

(***************************************************************************)
(* astype(np.float32) of an integer sample time: exact below 2^24, rounded *)
(* to the nearest even integer (ties to the even mantissa) in [2^24, 2^25) *)
(***************************************************************************)
F32(t) ==
    IF t < 16777216 THEN t
    ELSE IF t % 2 = 0 THEN t
    ELSE IF (t - 1) % 4 = 0 THEN t - 1 ELSE t + 1

\* np.unique(spike_clusters) and new_spike_idx: a unit's rank among the units
\* that own at least one spike
good_templates_idx(clusters) == {clusters[i] : i \in DOMAIN clusters}

new_spike_idx(clusters, c) ==
    Cardinality({u \in good_templates_idx(clusters) : u < c})

spike_clusters_flat(clusters) ==
    [i \in DOMAIN clusters |-> new_spike_idx(clusters, clusters[i])]

\* peak_channels as the caller passes it: one entry per unit that owns spikes,
\* in the order of the renumbered ids (index r+1 holds renumbered unit r)
peak_channels(clusters) ==
    [r \in 1..Cardinality(good_templates_idx(clusters)) |->
        ChannelOf[CHOOSE u \in good_templates_idx(clusters) :
                     new_spike_idx(clusters, u) = r - 1]]

\* np.bincount(batch_spike_clusters)[c]
unit_spike_counts(clusters, c) ==
    Cardinality({i \in DOMAIN clusters : clusters[i] = c})

\* np.abs(t1 - t2) <= window; false as soon as one time is NaN
WithinWindow(t1, t2, w) == t1 # NaN /\ t2 # NaN /\ Abs(t1 - t2) <= w

\* batch_spike_times_samples[k] = np.nan ; remove_idx[k] = 1   (k is 0-based)
MarkRemoved(st, k) ==
    [times |-> [st.times EXCEPT ![k + 1] = NaN],
     remove_idx |-> [st.remove_idx EXCEPT ![k + 1] = 1]]

\* (mutation) the intra-unit comparison discarding the higher amplitude spike
IntraLoserKeepsLower(amps, i1, j) == IF amps[i1 + 1] > amps[j + 1] THEN i1 ELSE j

\* the spike discarded by an intra-unit comparison: the lower amplitude one,
\* spike_idx2 when the amplitudes are equal
IntraLoser(amps, i1, j) == IF amps[i1 + 1] < amps[j + 1] THEN i1 ELSE j

\* the spike discarded by an inter-unit comparison
InterLoser(clusters, i1, j) ==
    IF unit_spike_counts(clusters, clusters[i1 + 1])
         < unit_spike_counts(clusters, clusters[j + 1])
    THEN i1 ELSE j

(***************************************************************************)
(* One iteration of the inner loop of remove_duplicates for spike_idx1 =   *)
(* i1 and spike_idx2 = i2 (both 0-based, i2 possibly negative).  A         *)
(* negative index wraps around to i2 + num_spikes.  An index below         *)
(* -num_spikes reads outside the arrays; it exists only when num_spikes <  *)
(* Radius - i1, and then the same pass reaches i2 = i1 - num_spikes, which *)
(* wraps to i1 itself and removes spike i1 unless it is removed already,   *)
(* so whatever the out-of-range read yields (nothing, or spike i1 removed) *)
(* the returned mask is the same; it is modelled as yielding nothing.      *)
(***************************************************************************)
CompareStep(st, clusters, amps, flat, peak, w, i1, i2) ==
    LET n == Len(clusters)
        j == IF i2 < 0 THEN i2 + n ELSE i2
    IN  IF i1 = i2 THEN st
        ELSE IF j < 0 THEN st
        ELSE IF st.remove_idx[j + 1] = 1 THEN st
        ELSE IF peak[flat[i1 + 1] + 1] # peak[flat[j + 1] + 1] THEN st
        ELSE IF ~WithinWindow(st.times[i1 + 1], st.times[j + 1], w) THEN st
        ELSE IF clusters[i1 + 1] = clusters[j + 1]
             THEN MarkRemoved(st, IntraLoser(amps, i1, j))
             ELSE MarkRemoved(st, InterLoser(clusters, i1, j))

RECURSIVE InnerLoop(_, _, _, _, _, _, _, _, _)
InnerLoop(st, clusters, amps, flat, peak, w, i1, i2, hi) ==
    IF i2 >= hi THEN st
    ELSE InnerLoop(CompareStep(st, clusters, amps, flat, peak, w, i1, i2),
                   clusters, amps, flat, peak, w, i1, i2 + 1, hi)

RECURSIVE OuterLoop(_, _, _, _, _, _, _)
OuterLoop(st, clusters, amps, flat, peak, w, i1) ==
    IF i1 >= Len(clusters) THEN st
    ELSE IF st.remove_idx[i1 + 1] = 1
         THEN OuterLoop(st, clusters, amps, flat, peak, w, i1 + 1)
         ELSE OuterLoop(
                InnerLoop(st, clusters, amps, flat, peak, w, i1,
                          i1 - Radius, Min2(i1 + Radius, Len(clusters))),
                clusters, amps, flat, peak, w, i1 + 1)

\* remove_duplicates: the returned remove_idx
remove_duplicates(times, clusters, amps, flat, peak, w) ==
    OuterLoop([times |-> times, remove_idx |-> [i \in DOMAIN times |-> 0]],
              clusters, amps, flat, peak, w, 0).remove_idx

(***************************************************************************)
(* Specification SpecBatch: one batch, one call of remove_duplicates       *)
(***************************************************************************)
\* the time-sorted trains of n spikes
Trains(n) ==
    { [i \in 1..n |-> base + SumTo(dt, i)] :
        base \in TimeBases,
        dt \in {d \in [1..n -> Gaps] : d[1] = 0} }

\* remove_duplicate_spikes is not running
DupOff ==
    /\ d_pc = "off" /\ d_call = 0
    /\ d_times = << >> /\ d_clusters = << >> /\ d_amps = << >> /\ d_peak = << >>
    /\ d_param = [remove_duplicate_spike |-> FALSE,
                  recompute_duplicate_spike |-> FALSE,
                  save_spike_without_duplicates |-> FALSE]
    /\ d_file = [kind |-> "absent", mask |-> << >>]
    /\ d_starts = << >> /\ d_mask = << >> /\ d_out = << >>
    /\ d_hist = << >>

\* fraction_RP_violations is not running
RpvOff ==
    /\ r_pc = "off" /\ r_spikes = {} /\ r_param = << >>
    /\ r_use_this_tauR = [given |-> FALSE] /\ r_cell = <<0, 0>>
    /\ fraction_RPVs = << >> /\ num_violations = << >>
    /\ overestimate_bool = << >>

\* time_chunks_to_keep is not running
KeepOff ==
    /\ k_pc = "off" /\ k_time_chunks = << >> /\ k_missing = << >>
    /\ k_fraction = << >> /\ k_spikes = << >> /\ k_amplitudes = << >>
    /\ k_clusters = << >> /\ k_seconds = << >> /\ k_out = << >>

\* get_quality_unit_type is not running
TypeOff ==
    /\ q_pc = "off" /\ q_param = << >> /\ q_metrics = << >>
    /\ unit_type = NaN /\ unit_type_string = ""

\* perc_spikes_missing is not running
MissOff ==
    /\ m_pc = "off" /\ m_hist = << >> /\ m_idx = 0
    /\ percent_missing_gaussian = << >> /\ m_failed = {}

\* get_distance_metrics is not running
DistOff ==
    /\ g_pc = "off" /\ g_counts = << >> /\ pc_features_idx = << >>
    /\ this_unit = 0 /\ g_ids = << >> /\ other_features_ind = << >>
    /\ other_features = << >> /\ n_count = 0 /\ g_out = << >>

\* presence_ratio is not running
PresenceOff ==
    /\ pr_pc = "off" /\ pr_times = {} /\ pr_span = << >> /\ pr_param = << >>
    /\ spikes_per_bin = << >> /\ pr_ratio = << >>

\* no waveform_shape call shares param with another
SharedOff ==
    /\ u_param = << >> /\ u_param0 = << >> /\ u_rows_close = FALSE
    /\ u_window = "unread" /\ u_unit = << >> /\ u_writes = {}

\* max_drift_estimate is not running
DriftOff ==
    /\ dr_pc = "off" /\ dr_times = {} /\ dr_depth = << >> /\ dr_param = << >>
    /\ drift_bin_size = 0 /\ time_bins = << >> /\ median_spike_depth = << >>
    /\ dr_i = 0 /\ dr_out = << >>

\* waveform_shape is not running
ShapeOff ==
    /\ s_pc = "off" /\ s_waveform = << >> /\ s_param = << >>
    /\ s_geometry = "unread" /\ s_window = "unread" /\ s_locals = << >>
    /\ s_slope = << >> /\ s_baseline = << >> /\ s_error = "none"

\* no batch is given to remove_duplicates
BatchOff ==
    /\ b_pc = "off" /\ b_times = << >> /\ b_clusters = << >>
    /\ b_amps = << >> /\ b_remove = << >>

InitBatch ==
    /\ DistOff
    /\ PresenceOff
    /\ SharedOff
    /\ DriftOff
    /\ ShapeOff
    /\ MissOff
    /\ TypeOff
    /\ DupOff
    /\ RpvOff
    /\ KeepOff
    /\ b_pc = "in"
    /\ \E n \in 1..MaxBatchLen :
         /\ b_times \in Trains(n)
         /\ b_clusters \in [1..n -> Clusters]
         /\ b_amps \in [1..n -> Amps]
    /\ b_remove = << >>

\* lines 219-233 for a train that is one batch
CallRemoveDuplicates ==
    /\ b_pc = "in"
    /\ b_remove' = remove_duplicates(
                      [i \in DOMAIN b_times |-> F32(b_times[i])],
                      b_clusters, b_amps,
                      spike_clusters_flat(b_clusters),
                      peak_channels(b_clusters),
                      duplicate_spike_window_samples)
    /\ b_pc' = "out"
    /\ UNCHANGED <<b_times, b_clusters, b_amps>>
    /\ UNCHANGED <<dupVars, rpvVars, keepVars, typeVars, missVars, shapeVars, driftVars,
                   sharedVars, presenceVars,
                   distVars>>

NextBatch == CallRemoveDuplicates

SpecBatch == InitBatch /\ [][NextBatch]_vars

(***************************************************************************)
(* remove_duplicate_spikes                                                 *)
(***************************************************************************)
\* the spikes (unit, amplitude) of the trains given to remove_duplicate_spikes
DupKinds == {[c |-> 0, a |-> 1], [c |-> 0, a |-> 2], [c |-> 1, a |-> 1]}

\* os.path.isdir: true of a directory only; np.save writes a regular file
isdir(f) == f.kind = "dir"

\* ~ applied to a Python bool is the integer bitwise complement: ~True = -2,
\* ~False = -1
BitwiseNot(b) == IF b THEN 0 - 2 ELSE 0 - 1

\* truth value of a Python integer in a condition
Truthy(x) == x # 0

\* param["recompute_duplicate_spike"] or ~os.path.isdir(<the saved mask>)
NeedCompute(param, f) ==
    param.recompute_duplicate_spike \/ Truthy(BitwiseNot(isdir(f)))

\* np.arange(num_spikes_full / (batch_size - overlap_size), dtype=np.int32)
\*   * (batch_size - overlap_size)
start_idxs(n) ==
    LET stride == batch_size - overlap_size
        num == (n + stride - 1) \div stride
    IN  [b \in 1..num |-> (b - 1) * stride]

\* x[np.argwhere(duplicate_spike_idx == 0)]: the first k entries of x, pruned
RECURSIVE Pruned(_, _, _)
Pruned(x, mask, k) ==
    IF k = 0 THEN << >>
    ELSE IF mask[k] = 0 THEN Append(Pruned(x, mask, k - 1), x[k])
         ELSE Pruned(x, mask, k - 1)

\* np.unique(spike_clusters) as the sorted array it is
unique_templates(clusters) ==
    [r \in 1..Cardinality(good_templates_idx(clusters)) |->
        CHOOSE u \in good_templates_idx(clusters) :
            new_spike_idx(clusters, u) = r - 1]

\* the per-unit arrays the caller passes, one row per unit that owns spikes:
\* a row of raw_waveforms_full and an entry of signal_to_noise_ratio are
\* stood for by the unit they were extracted from
per_unit_arrays(clusters) ==
    [raw_waveforms_full |-> unique_templates(clusters),
     raw_waveforms_peak_channel |->
         [r \in DOMAIN unique_templates(clusters) |->
             ChannelOf[unique_templates(clusters)[r]]],
     signal_to_noise_ratio |-> unique_templates(clusters)]

\* np.isin(unique_templates, non_empty_units, invert=True), as 0 / 1
empty_unit_idx(clusters, mask) ==
    [r \in DOMAIN unique_templates(clusters) |->
        IF \E i \in DOMAIN clusters :
               clusters[i] = unique_templates(clusters)[r] /\ mask[i] = 0
        THEN 0 ELSE 1]

\* what a Python function returns when it ends without a return statement
None == "None"

FreshHist(f, input) ==
    [file_at_call |-> f.kind, input |-> input,
     batch_calls |-> 0, loaded |-> FALSE, saved |-> FALSE]

InitDup ==
    /\ DistOff
    /\ PresenceOff
    /\ SharedOff
    /\ DriftOff
    /\ ShapeOff
    /\ MissOff
    /\ TypeOff
    /\ BatchOff
    /\ RpvOff
    /\ KeepOff
    /\ d_pc = "call" /\ d_call = 1
    /\ \E n \in 1..MaxSpikes :
         \E kind \in [1..n -> DupKinds] :
            /\ d_times \in {t \in Trains(n) : t[1] = 0}
            /\ d_clusters = [i \in 1..n |-> kind[i].c]
            /\ d_amps = [i \in 1..n |-> kind[i].a]
    /\ d_peak = peak_channels(d_clusters)
    /\ d_param \in [remove_duplicate_spike : BOOLEAN,
                     recompute_duplicate_spike : BOOLEAN,
                     save_spike_without_duplicates : BOOLEAN]
    /\ d_file = [kind |-> "absent", mask |-> << >>]
    /\ d_starts = << >> /\ d_mask = << >> /\ d_out = << >>
    /\ d_hist = FreshHist(d_file, "fresh")

\* lines 187-216 (compute) or 242-245 (reload)
Enter ==
    /\ d_pc = "call"
    /\ d_param.remove_duplicate_spike
    /\ IF NeedCompute(d_param, d_file)
       THEN /\ d_mask' = [i \in DOMAIN d_times |-> 0]
            /\ d_starts' = start_idxs(Len(d_times))
            /\ d_pc' = "batches"
            /\ d_hist' = d_hist
       ELSE /\ d_mask' = d_file.mask
            /\ d_starts' = << >>
            /\ d_pc' = "finish"
            /\ d_hist' = [d_hist EXCEPT !.loaded = TRUE]
    /\ UNCHANGED <<d_call, d_times, d_clusters, d_amps, d_peak, d_param,
                   d_file, d_out>>
    /\ UNCHANGED <<batchVars, rpvVars, keepVars, typeVars, missVars, shapeVars, driftVars,
                   sharedVars, presenceVars,
                   distVars>>

\* lines 217-234: one iteration of the loop over start_idxs
ProcessBatch ==
    /\ d_pc = "batches" /\ d_starts # << >>
    /\ LET start_idx == Head(d_starts)
           end_idx == Min2(start_idx + batch_size, Len(d_times))
           flat == spike_clusters_flat(d_clusters)
           batch_remove_idx ==
               remove_duplicates(
                   [i \in 1..(end_idx - start_idx) |-> F32(d_times[start_idx + i])],
                   SubSeq(d_clusters, start_idx + 1, end_idx),
                   SubSeq(d_amps, start_idx + 1, end_idx),
                   SubSeq(flat, start_idx + 1, end_idx),
                   d_peak,
                   duplicate_spike_window_samples)
       IN  d_mask' = [i \in DOMAIN d_mask |->
                        IF start_idx < i /\ i <= end_idx
                        THEN batch_remove_idx[i - start_idx]
                        ELSE d_mask[i]]
    /\ d_starts' = Tail(d_starts)
    /\ d_pc' = IF Tail(d_starts) = << >> THEN "finish" ELSE "batches"
    /\ d_hist' = [d_hist EXCEPT !.batch_calls = @ + 1]
    /\ UNCHANGED <<d_call, d_times, d_clusters, d_amps, d_peak, d_param,
                   d_file, d_out>>
    /\ UNCHANGED <<batchVars, rpvVars, keepVars, typeVars, missVars, shapeVars, driftVars,
                   sharedVars, presenceVars,
                   distVars>>

\* lines 236-240 (save, in the compute branch only) and 247-282
Finish ==
    /\ d_pc = "finish"
    /\ LET save == ~d_hist.loaded /\ d_param.save_spike_without_duplicates
       IN  /\ d_file' = IF save THEN [kind |-> "file", mask |-> d_mask]
                                 ELSE d_file
           /\ d_hist' = [d_hist EXCEPT !.saved = save]
    /\ d_out' =
         [non_empty_units |->
              {d_clusters[i] : i \in {k \in DOMAIN d_clusters : d_mask[k] = 0}},
          duplicate_spike_idx |-> d_mask,
          spike_times_samples |-> Pruned(d_times, d_mask, Len(d_times)),
          spike_clusters |-> Pruned(d_clusters, d_mask, Len(d_times)),
          template_amplitudes |-> Pruned(d_amps, d_mask, Len(d_times)),
          raw_waveforms_full |->
              Pruned(per_unit_arrays(d_clusters).raw_waveforms_full,
                     empty_unit_idx(d_clusters, d_mask),
                     Len(unique_templates(d_clusters))),
          raw_waveforms_peak_channel |->
              Pruned(per_unit_arrays(d_clusters).raw_waveforms_peak_channel,
                     empty_unit_idx(d_clusters, d_mask),
                     Len(unique_templates(d_clusters))),
          signal_to_noise_ratio |->
              Pruned(per_unit_arrays(d_clusters).signal_to_noise_ratio,
                     empty_unit_idx(d_clusters, d_mask),
                     Len(unique_templates(d_clusters))),
          peak_channels |-> d_peak]
    /\ d_pc' = "done"
    /\ UNCHANGED <<d_call, d_times, d_clusters, d_amps, d_peak, d_param,
                   d_starts, d_mask>>
    /\ UNCHANGED <<batchVars, rpvVars, keepVars, typeVars, missVars, shapeVars, driftVars,
                   sharedVars, presenceVars,
                   distVars>>

\* line 184 when param["remove_duplicate_spike"] is false: the body is
\* skipped and the function ends without a return statement
Disabled ==
    /\ d_pc = "call"
    /\ ~d_param.remove_duplicate_spike
    /\ d_out' = None
    /\ d_pc' = "none"
    /\ UNCHANGED <<d_call, d_times, d_clusters, d_amps, d_peak, d_param,
                   d_file, d_starts, d_mask, d_hist>>
    /\ UNCHANGED <<batchVars, rpvVars, keepVars, typeVars, missVars, shapeVars, driftVars,
                   sharedVars, presenceVars,
                   distVars>>

\* the caller runs remove_duplicate_spikes again on the same arrays
CallAgain ==
    /\ d_pc = "done" /\ d_call < MaxCalls
    /\ d_call' = d_call + 1
    /\ d_pc' = "call"
    /\ d_hist' = FreshHist(d_file, "same")
    /\ UNCHANGED <<d_times, d_clusters, d_amps, d_peak, d_param, d_file,
                   d_starts, d_mask, d_out>>
    /\ UNCHANGED <<batchVars, rpvVars, keepVars, typeVars, missVars, shapeVars, driftVars,
                   sharedVars, presenceVars,
                   distVars>>

\* the caller runs remove_duplicate_spikes again on the arrays it returned
CallOnPruned ==
    /\ d_pc = "done" /\ d_call < MaxCalls
    /\ d_out.spike_times_samples # << >>
    /\ d_call' = d_call + 1
    /\ d_pc' = "call"
    /\ d_times' = d_out.spike_times_samples
    /\ d_clusters' = d_out.spike_clusters
    /\ d_amps' = d_out.template_amplitudes
    /\ d_peak' = d_out.peak_channels
    /\ d_hist' = FreshHist(d_file, "pruned")
    /\ UNCHANGED <<d_param, d_file, d_starts, d_mask, d_out>>
    /\ UNCHANGED <<batchVars, rpvVars, keepVars, typeVars, missVars, shapeVars, driftVars,
                   sharedVars, presenceVars,
                   distVars>>

NextDup ==
    \/ Enter
    \/ Disabled
    \/ ProcessBatch
    \/ Finish
    \/ CallAgain
    \/ CallOnPruned

SpecDup == InitDup /\ [][NextDup]_vars

(***************************************************************************)
(* fraction_RP_violations.  Times are whole seconds; a fraction is held as *)
(* an integer number of 1/Scale (Scale stands for 1.0), rounded down.      *)
(***************************************************************************)
\* floor of the square root
RECURSIVE ISqrtBetween(_, _, _)
ISqrtBetween(x, lo, hi) ==
    IF lo = hi THEN lo
    ELSE LET mid == (lo + hi + 1) \div 2
         IN  IF mid * mid <= x THEN ISqrtBetween(x, mid, hi)
             ELSE ISqrtBetween(x, lo, mid - 1)

ISqrt(x) == ISqrtBetween(x, 0, Min2(x, 40000))

\* time_chunks: the edges of the unit's time chunks
RpvTimeChunks == <<0, 4, 8>>

\* np.arange(tauR_min, tauR_max + tauR_step, tauR_step)
ArangeLen(lo, hi, step) == IF hi <= lo THEN 0 ELSE (hi - lo + step - 1) \div step

tauR_full_window(param) ==
    [i \in 1..ArangeLen(param.tauR_values_min,
                        param.tauR_values_max + param.tauR_values_steps,
                        param.tauR_values_steps)
        |-> param.tauR_values_min + (i - 1) * param.tauR_values_steps]

\* lines 560-564: the single column tauR_window[int(use_this_tauR)]
tauR_window(param, use) ==
    IF use.given THEN << tauR_full_window(param)[use.idx + 1] >>
    ELSE tauR_full_window(param)

\* these_spike_times within [time_chunks[c], time_chunks[c + 1])  (c 0-based)
chunk_spike_times(spikes, chunks, c) ==
    {t \in spikes : t >= chunks[c + 1] /\ t < chunks[c + 2]}

\* (mutation) every pair of spikes of the chunk at most tauR apart
HillViolationsAllPairs(chunk, tauR) ==
    Cardinality({p \in chunk \X chunk : p[1] < p[2] /\ p[2] - p[1] <= tauR})

\* np.sum(np.diff(chunk_spike_times) <= tauR): consecutive spikes
HillViolations(chunk, tauR) ==
    Cardinality({t \in chunk :
        \E u \in chunk : /\ u > t /\ u - t <= tauR
                         /\ ~\E m \in chunk : t < m /\ m < u})

\* lines 641-645: all pairs j > i with tauC <= isi <= tauR
PairViolations(chunk, tauR, tauC) ==
    Cardinality({p \in chunk \X chunk :
        p[1] < p[2] /\ p[2] - p[1] <= tauR /\ p[2] - p[1] >= tauC})

\* lines 609-635 for v > 0 violations among n spikes: the smaller root of
\* -k f^2 + k f - v T, the ratio estimate when the roots are complex (or
\* when k = 0 and np.roots returns no root), clamped to 1
HillFraction(n, v, T, tauR, tauC) ==
    LET k == 2 * (tauR - tauC) * n * n
        disc == k * k - 4 * k * v * T
        raw == IF k # 0 /\ disc >= 0
               THEN \* np.min(rts) of (k -/+ sqrt(disc)) / (2 k)
                    IF k > 0
                    THEN (k * Scale - ISqrt(disc * Scale * Scale)) \div (2 * k)
                    ELSE (k * Scale + ISqrt(disc * Scale * Scale)) \div (2 * k)
               ELSE IF v < n
                    THEN IF tauR = tauC
                         THEN 2 * Scale    \* v / 0.0 = inf
                         ELSE (v * Scale) \div (2 * (tauR - tauC) * (n - v))
                    ELSE Scale
    IN  IF raw > Scale THEN Scale ELSE raw

\* lines 609-630 for v > 0: overestimate_bool, 1 only when the roots are
\* complex and the violations are not fewer than the spikes
HillOverestimate(n, v, T, tauR, tauC) ==
    LET k == 2 * (tauR - tauC) * n * n
        disc == k * k - 4 * k * v * T
    IN  IF k # 0 /\ disc >= 0 THEN 0
        ELSE IF v < n THEN 0 ELSE 1

\* lines 638-651: 1 - sqrt(underRoot); with N = 0 the quotient is 0.0 / 0.0 =
\* NaN, `underRoot >= 0` is false and the fraction is set to 1
ExactFraction(N, v, duration_chunk, tauR, tauC) ==
    LET num == v * (duration_chunk - 2 * N * tauC)
        den == N * N * (tauR - tauC)
    IN  IF den = 0 THEN Scale
        ELSE IF den - num >= 0
             THEN Scale - ISqrt(((den - num) * Scale * Scale) \div den)
             ELSE Scale

\* the two outputs of one (chunk, tauR) cell: lines 589-651
RpvCell(spikes, chunks, param, tauR, c) ==
    LET chunk == chunk_spike_times(spikes, chunks, c)
        n_chunk == Cardinality(chunk)
        duration_chunk == chunks[c + 2] - chunks[c + 1]
    IN  IF param.use_hill_method
        THEN LET v == HillViolations(chunk, tauR)
             IN  [num |-> v,
                  over |-> IF v = 0 THEN 0
                           ELSE HillOverestimate(n_chunk, v, duration_chunk,
                                                 tauR, param.tauC),
                  frac |-> IF v = 0 THEN 0
                           ELSE HillFraction(n_chunk, v, duration_chunk,
                                             tauR, param.tauC)]
        ELSE [num |-> 0,      \* num_violations is not written in this mode
              over |-> 0,     \* nor is overestimate_bool
              frac |-> ExactFraction(n_chunk,
                                     PairViolations(chunk, tauR, param.tauC),
                                     duration_chunk, tauR, param.tauC)]

RpvParams ==
    [use_hill_method : BOOLEAN, tauC : {0, 1},
     tauR_values_min : {2}, tauR_values_max : {3}, tauR_values_steps : {1}]

InitRpv ==
    /\ DistOff
    /\ PresenceOff
    /\ SharedOff
    /\ DriftOff
    /\ ShapeOff
    /\ MissOff
    /\ TypeOff
    /\ BatchOff
    /\ DupOff
    /\ KeepOff
    /\ r_pc = "loop"
    /\ r_spikes \in SUBSET (RpvTimeChunks[1]..(RpvTimeChunks[3] - 1))
    /\ r_param \in RpvParams
    /\ r_use_this_tauR \in
          {[given |-> FALSE]} \cup
          {[given |-> TRUE, idx |-> i] :
              i \in 0..(Len(tauR_full_window(r_param)) - 1)}
    /\ r_cell = <<0, 0>>
    \* np.zeros((time_chunks.shape[0] - 1, tauR_window.shape[0]))
    /\ fraction_RPVs =
          [c \in 1..(Len(RpvTimeChunks) - 1) |->
              [i \in 1..Len(tauR_window(r_param, r_use_this_tauR)) |-> 0]]
    /\ num_violations = fraction_RPVs
    /\ overestimate_bool = fraction_RPVs

\* one iteration of the loops of lines 574-651
ComputeCell ==
    /\ r_pc = "loop"
    /\ LET c == r_cell[1]
           i == r_cell[2]
           window == tauR_window(r_param, r_use_this_tauR)
           out == RpvCell(r_spikes, RpvTimeChunks, r_param, window[i + 1], c)
           lastTau == i + 1 = Len(window)
           lastChunk == c + 1 = Len(RpvTimeChunks) - 1
       IN  /\ fraction_RPVs' = [fraction_RPVs EXCEPT ![c + 1][i + 1] = out.frac]
           /\ num_violations' = [num_violations EXCEPT ![c + 1][i + 1] = out.num]
           /\ overestimate_bool' =
                 [overestimate_bool EXCEPT ![c + 1][i + 1] = out.over]
           /\ r_cell' = IF lastTau THEN <<c + 1, 0>> ELSE <<c, i + 1>>
           /\ r_pc' = IF lastTau /\ lastChunk THEN "done" ELSE "loop"
    /\ UNCHANGED <<r_spikes, r_param, r_use_this_tauR>>
    /\ UNCHANGED <<batchVars, dupVars, keepVars, typeVars, missVars, shapeVars, driftVars,
                   sharedVars, presenceVars,
                   distVars>>

NextRpv == ComputeCell

SpecRpv == InitRpv /\ [][NextRpv]_vars

(***************************************************************************)
(* time_chunks_to_keep.  Chunk indices and positions are 0-based as in the *)
(* source; a sequence holding them is read at position + 1.                *)
(***************************************************************************)
\* (mutation) NaN ordered as a number below every metric value
LtNaNLowest(a, b) == a < b

\* a < b on floats: false as soon as one side is NaN
Lt(a, b) == a # NaN /\ b # NaN /\ a < b

\* the ascending sequence of the elements of a set of integers
RECURSIVE SortedSeq(_)
SortedSeq(S) ==
    IF S = {} THEN << >>
    ELSE LET m == CHOOSE x \in S : \A y \in S : x <= y
         IN  <<m>> \o SortedSeq(S \ {m})

\* np.argmax: the 0-based position of the first maximum
ArgMax(x) ==
    (CHOOSE i \in DOMAIN x :
        /\ \A j \in DOMAIN x : x[j] <= x[i]
        /\ \A j \in DOMAIN x : j < i => x[j] < x[i]) - 1

\* np.sum(fraction_RPVs, axis=0)
sum_RPV(fraction) ==
    [i \in DOMAIN fraction[1] |->
        SumTo([c \in DOMAIN fraction |-> fraction[c][i]], Len(fraction))]

\* lines 702-707: the chunks with missing% and RPV fraction below threshold
use_these_times_temp(missing, fraction, param) ==
    LET use_tauR == ArgMax(sum_RPV(fraction))
    IN  SortedSeq({c \in 0..(Len(missing) - 1) :
            /\ Lt(missing[c + 1], param.max_perc_spikes_missing)
            /\ Lt(fraction[c + 1][use_tauR + 1], param.max_RPV)})

\* np.diff
Diff(x) == [i \in 1..(Len(x) - 1) |-> x[i + 1] - x[i]]

\* (np.argwhere(continuous_times > 1) + 1)
RunBreaks(continuous_times) ==
    SortedSeq({i + 1 : i \in {j \in 0..(Len(continuous_times) - 1) :
                                  continuous_times[j + 1] > 1}})

\* time_chunks[a:b]
Slice(x, a, b) == SubSeq(x, a + 1, Min2(b, Len(x)))

\* (mutation) the fallback slice taking one edge only
FirstGoodChunkOneEdge(time_chunks, temp) ==
    Slice(time_chunks, temp[1], temp[1] + 1)

\* lines 745-748: no two good chunks are adjacent, take the first good chunk
FirstGoodChunk(time_chunks, temp) ==
    Slice(time_chunks, temp[1], temp[1] + 2)

\* lines 716-743: the edges kept when some good chunks are adjacent
LongestRun(time_chunks, temp, continuous_times) ==
    LET breaks == RunBreaks(continuous_times)
        chunk_starts == <<0>> \o breaks
        chunk_ends == breaks \o <<Len(temp) - 1>>
        chunk_lengths == [i \in DOMAIN chunk_starts |->
                             chunk_ends[i] - chunk_starts[i] + 1]
        longest_chunk_idx == ArgMax(chunk_lengths)
        longest_chunk_start == temp[chunk_starts[longest_chunk_idx + 1] + 1]
        longest_chunk_end == temp[chunk_ends[longest_chunk_idx + 1] + 1]
    IN  Slice(time_chunks, longest_chunk_start, longest_chunk_end + 1)

\* lines 708-751
use_these_times(time_chunks, missing, fraction, param) ==
    LET temp == use_these_times_temp(missing, fraction, param)
        continuous_times == Diff(temp)
    IN  IF Len(temp) > 0
        THEN IF \E i \in DOMAIN continuous_times : continuous_times[i] = 1
             THEN LongestRun(time_chunks, temp, continuous_times)
             ELSE FirstGoodChunk(time_chunks, temp)
        ELSE time_chunks

\* param["max_RPV"], param["max_perc_spikes_missing"]
KeepParam == [max_RPV |-> 1, max_perc_spikes_missing |-> 1]

\* width of a time chunk
ChunkWidth == 2

\* the id of the unit whose chunks are selected
ThisUnit == 1

\* the recording the caller holds: at every time 0..last one spike of the
\* unit followed by one spike of another unit (id 0 or 2)
SpikeTimesSeconds(last) == [i \in 1..(2 * (last + 1)) |-> (i - 1) \div 2]

SpikeClusters(last) ==
    [i \in 1..(2 * (last + 1)) |->
        IF i % 2 = 1 THEN ThisUnit ELSE 2 * (((i - 1) \div 2) % 2)]

\* the unit's spike times and amplitudes as the caller extracts them; every
\* spike has its own amplitude
UnitSpikeTimes(last) == [i \in 1..(last + 1) |-> i - 1]

UnitAmplitudes(last) == [i \in 1..(last + 1) |-> 10 * i]

\* array[mask] for a boolean mask of the array's length
BoolIndex(array, mask) ==
    LET idx == SelectSeq([i \in DOMAIN array |-> i], LAMBDA i : mask[i])
    IN  [j \in DOMAIN idx |-> array[idx[j]]]

\* (mutation) these_spike_clusters is the caller's array itself
ClustersView(spike_clusters) == [shared |-> TRUE, values |-> spike_clusters]

\* line 765, spike_clusters.copy().astype(np.int32): a new array; cluster
\* ids are within int32, where the conversion keeps the value
ClustersCopy(spike_clusters) == [shared |-> FALSE, values |-> spike_clusters]

\* lines 766-771: -1 written where the spike is before the first or after
\* the last edge kept
MarkBadTimes(clusters, seconds, first_edge, last_edge) ==
    [i \in DOMAIN clusters |->
        IF seconds[i] < first_edge \/ seconds[i] > last_edge
        THEN 0 - 1 ELSE clusters[i]]

\* lines 759-764 and 773-778: the unit's spikes within the edges kept
InSpan(times, first_edge, last_edge) ==
    [i \in DOMAIN times |-> times[i] >= first_edge /\ times[i] <= last_edge]

InitKeep ==
    /\ DistOff
    /\ PresenceOff
    /\ SharedOff
    /\ DriftOff
    /\ ShapeOff
    /\ MissOff
    /\ TypeOff
    /\ BatchOff
    /\ DupOff
    /\ RpvOff
    /\ k_pc = "in"
    /\ \E n \in 1..MaxChunks :
         /\ k_time_chunks = [i \in 1..(n + 1) |-> (i - 1) * ChunkWidth]
         /\ k_missing \in [1..n -> {0, 1, NaN}]
         /\ k_fraction \in [1..n -> [1..2 -> {0, 1}]]
         /\ k_spikes = UnitSpikeTimes(n * ChunkWidth)
         /\ k_amplitudes = UnitAmplitudes(n * ChunkWidth)
         /\ k_clusters = SpikeClusters(n * ChunkWidth)
         /\ k_seconds = SpikeTimesSeconds(n * ChunkWidth)
    /\ k_out = << >>

\* the whole of time_chunks_to_keep
Keep ==
    /\ k_pc = "in"
    /\ \E use \in {use_these_times(k_time_chunks, k_missing, k_fraction, KeepParam)} :
       LET use_this_time_start == use[1]
           use_this_time_end == use[Len(use)]
           these_spike_clusters == ClustersCopy(k_clusters)
       IN  \E keep \in {InSpan(k_spikes, use_this_time_start, use_this_time_end)} :
           \E marked \in {MarkBadTimes(these_spike_clusters.values, k_seconds,
                                       use_this_time_start, use_this_time_end)} :
           /\ k_out' =
                [these_spike_times |-> BoolIndex(k_spikes, keep),
                 these_amplitudes |-> BoolIndex(k_amplitudes, keep),
                 these_spike_clusters |-> marked,
                 use_this_time_start |-> use_this_time_start,
                 use_this_time_end |-> use_this_time_end,
                 use_tauR |-> ArgMax(sum_RPV(k_fraction))]
           /\ k_clusters' = IF these_spike_clusters.shared THEN marked
                            ELSE k_clusters
    /\ k_pc' = "out"
    /\ UNCHANGED <<k_time_chunks, k_missing, k_fraction, k_spikes,
                   k_amplitudes, k_seconds>>
    /\ UNCHANGED <<batchVars, dupVars, rpvVars, typeVars, missVars, shapeVars, driftVars,
                   sharedVars, presenceVars,
                   distVars>>

NextKeep == Keep

SpecKeep == InitKeep /\ [][NextKeep]_vars

(***************************************************************************)
(* get_quality_unit_type, for one unit.  Every array of quality_metrics is *)
(* read at the unit's index, so the masks are booleans here.               *)
(***************************************************************************)
\* (mutation) the comparison taken as a >= b
GtOrEqual(a, b) == a # NaN /\ b # NaN /\ a >= b

\* a > b on floats: false as soon as one side is NaN
Gt(a, b) == a # NaN /\ b # NaN /\ a > b

\* lines 1561-1577
noise_mask(param, qm) ==
    LET base ==
            \/ qm.n_peaks = NaN
            \/ Gt(qm.n_peaks, param.max_n_peaks)
            \/ Gt(qm.n_troughs, param.max_n_troughs)
            \/ Lt(qm.waveform_duration_peak_trough, param.min_wv_duration)
            \/ Gt(qm.waveform_duration_peak_trough, param.max_wv_duration)
            \/ Gt(qm.waveform_baseline_flatness, param.max_wv_baseline_fraction)
            \/ Gt(qm.scnd_peak_to_trough_ratio,
                  param.max_scnd_peak_to_trough_ratio_noise)
    IN  IF param.compute_spatial_decay /\ param.sp_decay_lin_fit
        THEN base \/ Lt(qm.spatial_decay_slope, param.min_spatial_decay_slope)
        ELSE IF param.compute_spatial_decay
        THEN \/ base
             \/ Lt(qm.spatial_decay_slope, param.min_spatial_decay_slope_exp)
             \/ Gt(qm.spatial_decay_slope, param.max_spatial_decay_slope_exp)
        ELSE base

\* lines 1582-1588
is_non_somatic(param, qm) ==
    \/ /\ Lt(qm.trough_to_peak2_ratio,
              param.min_trough_to_peak2_ratio_non_somatic)
       /\ Lt(qm.peak_before_width, param.min_width_first_peak_non_somatic)
       /\ Lt(qm.trough_width, param.min_width_main_trough_non_somatic)
       /\ Gt(qm.peak1_to_peak2_ratio,
              param.max_peak1_to_peak2_ratio_non_somatic)
    \/ Gt(qm.main_peak_to_trough_ratio,
          param.max_main_peak_to_trough_ratio_non_somatic)

\* lines 1591-1611; ut is unit_type after the noise assignment
mua_mask(param, qm, ut) ==
    /\ ut = NaN
    /\ \/ Gt(qm.percent_missing_gaussian, param.max_perc_spikes_missing)
       \/ Lt(qm.n_spikes, param.min_num_spikes_total)
       \/ Gt(qm.fraction_RPVs, param.max_RPV)
       \/ Lt(qm.presence_ratio, param.min_presence_ratio)
       \/ /\ param.extract_raw_waveforms
          /\ \/ Lt(qm.raw_amplitude, param.min_amplitude)
             \/ Lt(qm.signal_to_noise_ratio, param.min_SNR)
       \/ /\ param.compute_drift
          /\ Gt(qm.max_drift_estimate, param.max_drift)
       \/ /\ param.compute_distance_metrics
          /\ \/ Gt(qm.isolation_dist, param.iso_d_min)
             \/ Gt(qm.l_ratio, param.lratio_max)

\* (mutation) the relabelling without its unit_type != 0 guard
NonSomaticRelabelAny(param, ut, nonsoma) ==
    IF param.split_good_and_mua_non_somatic
    THEN IF ut = 1 /\ nonsoma THEN 3
         ELSE IF ut = 2 /\ nonsoma THEN 4 ELSE ut
    ELSE IF nonsoma THEN 3 ELSE ut

\* (mutation) the relabelling taking the unsplit branch whatever the option
NonSomaticRelabelUnsplit(param, ut, nonsoma) ==
    IF ut # 0 /\ nonsoma THEN 3 ELSE ut

\* lines 1617-1623
NonSomaticRelabel(param, ut, nonsoma) ==
    IF param.split_good_and_mua_non_somatic
    THEN IF ut = 1 /\ nonsoma THEN 3
         ELSE IF ut = 2 /\ nonsoma THEN 4 ELSE ut
    ELSE IF ut # 0 /\ nonsoma THEN 3 ELSE ut

\* lines 1626-1632
labels(param, code) ==
    CASE code = 0 -> "NOISE"
      [] code = 1 -> "GOOD"
      [] code = 2 -> "MUA"
      [] code = 3 -> IF param.split_good_and_mua_non_somatic
                     THEN "NON-SOMA GOOD" ELSE "NON-SOMA"
      [] code = 4 -> "NON-SOMA MUA"
      [] OTHER -> ""

\* lines 1558-1623, the code of the unit
get_quality_unit_type(param, qm) ==
    LET ut0 == IF noise_mask(param, qm) THEN 0 ELSE NaN
        ut1 == IF mua_mask(param, qm, ut0) THEN 2 ELSE ut0
        ut2 == IF ut1 = NaN THEN 1 ELSE ut1
    IN  NonSomaticRelabel(param, ut2, is_non_somatic(param, qm))

\* param: every min_* threshold is 1, every max_* (and the two distance
\* thresholds) is 2; the six options are free
Params ==
    {[max_n_peaks |-> 2, max_n_troughs |-> 2,
      min_wv_duration |-> 1, max_wv_duration |-> 2,
      max_wv_baseline_fraction |-> 2,
      max_scnd_peak_to_trough_ratio_noise |-> 2,
      min_spatial_decay_slope |-> 1,
      min_spatial_decay_slope_exp |-> 1, max_spatial_decay_slope_exp |-> 2,
      min_trough_to_peak2_ratio_non_somatic |-> 1,
      min_width_first_peak_non_somatic |-> 1,
      min_width_main_trough_non_somatic |-> 1,
      max_peak1_to_peak2_ratio_non_somatic |-> 2,
      max_main_peak_to_trough_ratio_non_somatic |-> 2,
      max_perc_spikes_missing |-> 2, min_num_spikes_total |-> 1,
      max_RPV |-> 2, min_presence_ratio |-> 1,
      min_amplitude |-> 1, min_SNR |-> 1, max_drift |-> 2,
      iso_d_min |-> 2, lratio_max |-> 2,
      compute_spatial_decay |-> f[1], sp_decay_lin_fit |-> f[2],
      extract_raw_waveforms |-> f[3], compute_drift |-> f[4],
      compute_distance_metrics |-> f[5],
      split_good_and_mua_non_somatic |-> f[6]] : f \in [1..6 -> BOOLEAN]}

\* a unit no rule objects to: every metric strictly inside its thresholds or
\* on the passing side of its single threshold
CleanUnit ==
    [n_peaks |-> 1, n_troughs |-> 1, waveform_duration_peak_trough |-> 1,
     waveform_baseline_flatness |-> 1, scnd_peak_to_trough_ratio |-> 1,
     spatial_decay_slope |-> 2,
     trough_to_peak2_ratio |-> 2, peak_before_width |-> 2, trough_width |-> 2,
     peak1_to_peak2_ratio |-> 1, main_peak_to_trough_ratio |-> 1,
     percent_missing_gaussian |-> 1, n_spikes |-> 2, fraction_RPVs |-> 1,
     presence_ratio |-> 2, raw_amplitude |-> 2, signal_to_noise_ratio |-> 2,
     max_drift_estimate |-> 1, isolation_dist |-> 1, l_ratio |-> 1]

\* the same unit with the four waveform-shape conditions of a non-somatic
\* unit met together
AxonalUnit ==
    [CleanUnit EXCEPT !.trough_to_peak2_ratio = 0, !.peak_before_width = 0,
                      !.trough_width = 0, !.peak1_to_peak2_ratio = 3]

\* values a metric takes: below, on and above the thresholds, and NaN
MetricValues == {0, 1, 2, 3, NaN}

\* the units: one of the two above, with n_peaks below or above max_n_peaks
\* and up to two metrics set freely
Units ==
    {[[[u EXCEPT !.n_peaks = p] EXCEPT ![m1] = v1] EXCEPT ![m2] = v2] :
        u \in {CleanUnit, AxonalUnit}, p \in {1, 3},
        m1 \in DOMAIN CleanUnit, v1 \in MetricValues,
        m2 \in DOMAIN CleanUnit, v2 \in MetricValues}

InitType ==
    /\ DistOff
    /\ PresenceOff
    /\ SharedOff
    /\ DriftOff
    /\ ShapeOff
    /\ MissOff
    /\ BatchOff
    /\ DupOff
    /\ RpvOff
    /\ KeepOff
    /\ q_pc = "in"
    /\ q_param \in Params
    /\ q_metrics \in Units
    /\ unit_type = NaN
    /\ unit_type_string = ""

\* the whole of get_quality_unit_type
Classify ==
    /\ q_pc = "in"
    /\ unit_type' = get_quality_unit_type(q_param, q_metrics)
    /\ unit_type_string' = labels(q_param, unit_type')
    /\ q_pc' = "out"
    /\ UNCHANGED <<q_param, q_metrics>>
    /\ UNCHANGED <<batchVars, dupVars, rpvVars, keepVars, missVars, shapeVars, driftVars,
                   sharedVars, presenceVars,
                   distVars>>

NextType == Classify

SpecType == InitType /\ [][NextType]_vars

(***************************************************************************)
(* perc_spikes_missing: the Gaussian estimate of each time chunk.  The     *)
(* chunk's amplitudes enter as their histogram; scipy's curve_fit either   *)
(* returns parameters or raises RuntimeError when maxfev is exhausted.     *)
(***************************************************************************)
\* n_bins (50 in the source)
n_bins == 3

\* np.histogram spans the data: the first and the last bin hold a spike
Histograms ==
    {h \in [1..n_bins -> 0..MaxCount] : h[1] >= 1 /\ h[n_bins] >= 1}

\* np.max
MaxOf(x) == CHOOSE v \in {x[i] : i \in DOMAIN x} : \A i \in DOMAIN x : x[i] <= v

\* lines 448-459: the counts with zero bins added down to amplitude 0
spike_counts_per_amp_bin_gaussian(h) == <<0>> \o h

\* lines 328-335
is_peak_cutoff(counts) == MaxOf(counts) # MaxOf(Diff(counts))

\* 100 * (1 - norm_area) of a fit that converged
FitValues == {0, 40}

InitMiss ==
    /\ DistOff
    /\ PresenceOff
    /\ SharedOff
    /\ DriftOff
    /\ ShapeOff
    /\ TypeOff
    /\ BatchOff
    /\ DupOff
    /\ RpvOff
    /\ KeepOff
    /\ m_pc = "loop"
    /\ \E n \in 1..MaxMissChunks :
         /\ m_hist \in [1..n -> Histograms \cup {<< >>}]
         \* np.zeros(time_chunks.shape[0] - 1)
         /\ percent_missing_gaussian = [c \in 1..n |-> 0]
    /\ m_idx = 0
    /\ m_failed = {}

\* the chunk reaches curve_fit (lines 464-482)
ReachesFit(h) ==
    /\ h # << >>
    /\ SumTo(h, Len(h)) > 5
    /\ is_peak_cutoff(spike_counts_per_amp_bin_gaussian(h))

\* lines 364-502 for a chunk that needs no fit: no spike, at most 5 spikes
\* after the histogram, or a peak that is cut off
ChunkWithoutFit ==
    /\ m_pc = "loop" /\ m_idx < Len(m_hist)
    /\ LET h == m_hist[m_idx + 1]
       IN  /\ ~ReachesFit(h)
           /\ percent_missing_gaussian' =
                 [percent_missing_gaussian EXCEPT ![m_idx + 1] =
                     IF h = << >> THEN NaN
                     ELSE IF SumTo(h, Len(h)) <= 5 THEN NaN
                     ELSE 1]
    /\ m_idx' = m_idx + 1
    /\ UNCHANGED <<m_pc, m_hist, m_failed>>
    /\ UNCHANGED <<batchVars, dupVars, rpvVars, keepVars, typeVars, shapeVars, driftVars,
                   sharedVars, presenceVars,
                   distVars>>

\* lines 474-492: curve_fit returns fit_params
ChunkFitConverges ==
    /\ m_pc = "loop" /\ m_idx < Len(m_hist)
    /\ ReachesFit(m_hist[m_idx + 1])
    /\ \E v \in FitValues :
         percent_missing_gaussian' =
             [percent_missing_gaussian EXCEPT ![m_idx + 1] = v]
    /\ m_idx' = m_idx + 1
    /\ UNCHANGED <<m_pc, m_hist, m_failed>>
    /\ UNCHANGED <<batchVars, dupVars, rpvVars, keepVars, typeVars, shapeVars, driftVars,
                   sharedVars, presenceVars,
                   distVars>>

\* lines 474-482: curve_fit exhausts maxfev and raises RuntimeError; the call
\* is in no try block, so the error leaves perc_spikes_missing
ChunkFitFails ==
    /\ m_pc = "loop" /\ m_idx < Len(m_hist)
    /\ ReachesFit(m_hist[m_idx + 1])
    /\ m_failed' = m_failed \cup {m_idx}
    /\ m_pc' = "raised"
    /\ UNCHANGED <<m_hist, m_idx, percent_missing_gaussian>>
    /\ UNCHANGED <<batchVars, dupVars, rpvVars, keepVars, typeVars, shapeVars, driftVars,
                   sharedVars, presenceVars,
                   distVars>>

\* lines 521-524
MissReturn ==
    /\ m_pc = "loop" /\ m_idx = Len(m_hist)
    /\ m_pc' = "returned"
    /\ UNCHANGED <<m_hist, m_idx, percent_missing_gaussian, m_failed>>
    /\ UNCHANGED <<batchVars, dupVars, rpvVars, keepVars, typeVars, shapeVars, driftVars,
                   sharedVars, presenceVars,
                   distVars>>

NextMiss ==
    \/ ChunkWithoutFit
    \/ ChunkFitConverges
    \/ ChunkFitFails
    \/ MissReturn

SpecMiss == InitMiss /\ [][NextMiss]_vars

(***************************************************************************)
(* waveform_shape.  Waveform indices are 0-based as in the source; a       *)
(* sequence is read at index + 1.  Widths, the fitted slope and the        *)
(* baseline fraction are kept by kind (unbound, NaN, a value), which is    *)
(* what the control flow and the returned tuple depend on.                 *)
(***************************************************************************)
At(x, i) == x[i + 1]

Max2(a, b) == IF a >= b THEN a ELSE b

\* this_waveform * -1
Neg(x) == [i \in DOMAIN x |-> 0 - x[i]]

\* np.abs(this_waveform)
AbsSeq(x) == [i \in DOMAIN x |-> Abs(x[i])]

\* x[a:b] for 0 <= a <= b <= len(x)
Cut(x, a, b) == [i \in 1..(b - a) |-> x[a + i]]

\* np.argmin: 0-based position of the first minimum
ArgMin(x) == ArgMax(Neg(x))

\* scipy _local_maxima_1d: the midpoint of every local maximum, flat ones
\* included, that has a lower sample on both sides
LocalMaxima(x) ==
    {m \in 0..(Len(x) - 1) :
        \E l \in 1..(Len(x) - 2) : \E r \in l..(Len(x) - 2) :
            /\ \A i \in l..r : At(x, i) = At(x, l)
            /\ At(x, l - 1) < At(x, l)
            /\ At(x, r + 1) < At(x, l)
            /\ m = (l + r) \div 2}

\* the lowest sample between a and b
MinOver(x, a, b) ==
    CHOOSE v \in {At(x, i) : i \in a..b} : \A i \in a..b : v <= At(x, i)

\* scipy _peak_prominences with no wlen: on each side the lowest sample
\* before a strictly higher one, the higher of the two is the reference
Prominence(x, peak) ==
    LET a == CHOOSE j \in 0..peak :
                 /\ \A i \in j..peak : At(x, i) <= At(x, peak)
                 /\ (j = 0 \/ At(x, j - 1) > At(x, peak))
        b == CHOOSE j \in peak..(Len(x) - 1) :
                 /\ \A i \in peak..j : At(x, i) <= At(x, peak)
                 /\ (j = Len(x) - 1 \/ At(x, j + 1) > At(x, peak))
    IN  At(x, peak) - Max2(MinOver(x, a, peak), MinOver(x, peak, b))

\* find_peaks(x, prominence = (t.num / t.den) * maxabs, width = 0): the
\* peaks in ascending order; a width of at least 0 removes none
find_peaks(x, t, maxabs) ==
    SortedSeq({pk \in LocalMaxima(x) :
                  Prominence(x, pk) * t.den >= t.num * maxabs})

\* np.argmax(dict["prominences"]): 0-based position among the peaks found
MaxProminence(x, locs) == ArgMax([i \in DOMAIN locs |-> Prominence(x, locs[i])])

\* the kinds of value a width, slope or baseline variable holds
Unbound == [kind |-> "unbound"]
IsNaN == [kind |-> "nan"]
Scalar == [kind |-> "scalar"]
WidthsArray(n) == [kind |-> "array", size |-> n]

\* the relaxed prominence of the retries, 0.01
RelaxedThresh == [num |-> 1, den |-> 100]

\* lines 1025-1053: the troughs and the main trough
TroughStage(w, t) ==
    LET maxabs == MaxOf(AbsSeq(w))
        found == find_peaks(Neg(w), t, maxabs)
        trough_locs == IF found = << >> THEN <<ArgMin(w)>> ELSE found
        depths == [i \in DOMAIN trough_locs |-> At(w, trough_locs[i])]
    IN  [maxabs |-> maxabs,
         trough_locs |-> trough_locs,
         n_troughs |-> Len(trough_locs),
         trough_width |-> IF Len(found) > 1 THEN Scalar
                          ELSE IF Len(found) = 1 THEN WidthsArray(1)
                          ELSE IsNaN,
         trough_loc |-> trough_locs[ArgMin(depths) + 1],
         main_trough |-> 0 - MaxOf(Neg(depths))]

\* lines 1056-1068 and 1087-1111: the peaks before the trough, with the 1%
\* retry and the fall back to the highest sample before the trough;
\* used_max is set whenever the first detection found no peak
BeforeSide(w, t, maxabs, trough_loc) ==
    LET side == Cut(w, 0, trough_loc)
        strict == IF trough_loc > 2 THEN find_peaks(side, t, maxabs) ELSE << >>
        width1 == IF trough_loc > 2
                  THEN IF Len(strict) > 1 THEN Scalar ELSE WidthsArray(Len(strict))
                  ELSE Unbound
        relaxed == IF trough_loc > 2
                   THEN find_peaks(side, RelaxedThresh, maxabs) ELSE << >>
        locs2 == IF Len(relaxed) > 1
                 THEN <<relaxed[MaxProminence(side, relaxed) + 1]>> ELSE relaxed
        width2 == IF trough_loc > 2
                  THEN IF Len(relaxed) > 1 THEN Scalar ELSE IsNaN
                  ELSE width1
    IN  IF strict # << >>
        THEN [error |-> "none", locs |-> strict, width |-> width1,
              used_max |-> FALSE, fallback |-> "none"]
        ELSE IF locs2 # << >>
        THEN [error |-> "none", locs |-> locs2, width |-> width2,
              used_max |-> TRUE, fallback |-> "relaxed"]
        ELSE IF trough_loc = 0
        THEN \* np.argmax of an empty slice
             [error |-> "ValueError", locs |-> << >>, width |-> width2,
              used_max |-> FALSE, fallback |-> "max"]
        ELSE [error |-> "none", locs |-> <<ArgMax(side)>>, width |-> width2,
              used_max |-> TRUE, fallback |-> "max"]

\* lines 1071-1084 and 1114-1136: the peaks from the trough on; the retry is
\* guarded by trough_loc > 2 and, when it finds a single peak, leaves its
\* position relative to the trough
AfterSide(w, t, maxabs, trough_loc) ==
    LET side == Cut(w, trough_loc, Len(w))
        found == IF Len(w) - trough_loc > 2
                 THEN find_peaks(side, t, maxabs) ELSE << >>
        strict == [i \in DOMAIN found |-> found[i] + trough_loc]
        relaxed == IF trough_loc > 2
                   THEN find_peaks(side, RelaxedThresh, maxabs) ELSE << >>
        locs2 == IF Len(relaxed) > 1
                 THEN <<relaxed[MaxProminence(side, relaxed) + 1] + trough_loc>>
                 ELSE relaxed
    IN  IF strict # << >>
        THEN [locs |-> strict, used_max |-> FALSE, fallback |-> "none"]
        ELSE IF locs2 # << >>
        THEN [locs |-> locs2, used_max |-> TRUE, fallback |-> "relaxed"]
        ELSE [locs |-> <<ArgMax(side) + trough_loc>>, used_max |-> TRUE,
              fallback |-> "max"]

\* lines 1340-1343, the ratio |numerator / denominator| as a fraction, with
\* denominator 0 for inf
get_ratio(numerator, denominator) ==
    IF denominator = 0 THEN [num |-> 1, den |-> 0]
    ELSE IF numerator = 0 THEN [num |-> 0, den |-> 1]
    ELSE [num |-> Abs(numerator), den |-> Abs(denominator)]

\* lines 1173-1196: samples between the largest absolute sample and the
\* opposite extremum after it (the waveform has a non-zero sample here)
DurationSamples(w) ==
    LET loc == ArgMax(AbsSeq(w))
        rest == Cut(w, loc, Len(w))
    IN  IF At(w, loc) > 0 THEN ArgMin(rest) ELSE ArgMax(rest)

\* lines 1159 and 1162: main_peak < min_prominence * 0.5
BelowHalfProminenceAlways(main_peak, t, maxabs) == TRUE

BelowHalfProminence(main_peak, t, maxabs) ==
    main_peak * 2 * t.den < t.num * maxabs

\* lines 1139-1202: the reconciliation of the two sides and the metrics
Combine(w, t, tr, before, after) ==
    LET both == before.used_max /\ after.used_max
        before_higher == At(w, before.locs[1]) > At(w, after.locs[1])
        used_max_before == before.used_max /\ ~(both /\ before_higher)
        used_max_after == after.used_max /\ ~(both /\ ~before_higher)
        main_peak_before ==
            MaxOf([i \in DOMAIN before.locs |-> At(w, before.locs[i])])
        main_peak_after ==
            MaxOf([i \in DOMAIN after.locs |-> At(w, after.locs[i])])
        peak_locs ==
            IF used_max_before
               /\ BelowHalfProminence(main_peak_before, t, tr.maxabs)
            THEN after.locs
            ELSE IF used_max_after
                    /\ BelowHalfProminence(main_peak_after, t, tr.maxabs)
            THEN before.locs
            ELSE before.locs \o after.locs
    IN  [trough_loc |-> tr.trough_loc,
         peaks_before_locs |-> before.locs,
         peaks_after_locs |-> after.locs,
         fallback_before |-> before.fallback,
         fallback_after |-> after.fallback,
         used_max_before |-> used_max_before,
         used_max_after |-> used_max_after,
         main_peak_before |-> main_peak_before,
         main_peak_after |-> main_peak_after,
         peak_locs |-> peak_locs,
         n_peaks |-> Len(peak_locs),
         n_troughs |-> tr.n_troughs,
         waveform_duration_peak_trough |-> DurationSamples(w),
         scnd_peak_to_trough_ratio |-> get_ratio(main_peak_after, tr.main_trough),
         peak1_to_peak2_ratio |-> get_ratio(main_peak_before, main_peak_after),
         main_peak_to_trough_ratio |->
             get_ratio(Max2(main_peak_before, main_peak_after), tr.main_trough),
         trough_to_peak2_ratio |-> get_ratio(tr.main_trough, main_peak_before),
         peak_before_width |-> before.width,
         trough_width |-> tr.trough_width]

\* lines 1012-1022: every metric NaN
AllNaN ==
    [n_peaks |-> NaN, n_troughs |-> NaN, waveform_duration_peak_trough |-> NaN,
     scnd_peak_to_trough_ratio |-> IsNaN, peak1_to_peak2_ratio |-> IsNaN,
     main_peak_to_trough_ratio |-> IsNaN, trough_to_peak2_ratio |-> IsNaN,
     peak_before_width |-> IsNaN, trough_width |-> IsNaN]

\* sample values of a waveform
Samples == (0 - 2)..2

\* param: min_thresh_detect_peaks_troughs is 0.6 and compute_spatial_decay
\* is free (sp_decay_lin_fit only chooses which of the two fits is run)
ShapeParams ==
    {[min_thresh_detect_peaks_troughs |-> [num |-> 3, den |-> 5],
      compute_spatial_decay |-> c] : c \in BOOLEAN}

InitShape ==
    /\ DistOff
    /\ PresenceOff
    /\ SharedOff
    /\ DriftOff
    /\ MissOff
    /\ TypeOff
    /\ BatchOff
    /\ DupOff
    /\ RpvOff
    /\ KeepOff
    /\ s_pc = "peaks"
    /\ s_waveform \in [1..WaveLen -> Samples] \cup {<< >>}
    /\ s_param \in ShapeParams
    /\ s_geometry = "unread" /\ s_window = "unread"
    /\ s_locals = << >>
    /\ s_slope = Unbound
    /\ s_baseline = Unbound
    /\ s_error = "none"

\* lines 1011-1022 and 1325-1338: a waveform with a NaN sample
ShapeOfNaN ==
    /\ s_pc = "peaks" /\ s_waveform = << >>
    /\ s_locals' = AllNaN
    /\ s_slope' = IsNaN
    /\ s_baseline' = IsNaN
    /\ s_pc' = "returned"
    /\ UNCHANGED <<s_waveform, s_param, s_geometry, s_window, s_error>>
    /\ UNCHANGED <<batchVars, dupVars, rpvVars, keepVars, typeVars, missVars, driftVars,
                   sharedVars, presenceVars,
                   distVars>>

\* lines 1025-1202
DetectPeaks ==
    /\ s_pc = "peaks" /\ s_waveform # << >>
    /\ LET t == s_param.min_thresh_detect_peaks_troughs
       IN  \E tr \in {TroughStage(s_waveform, t)} :
           \E before \in {BeforeSide(s_waveform, t, tr.maxabs, tr.trough_loc)} :
              IF before.error # "none"
              THEN /\ s_pc' = "raised"
                   /\ s_error' = before.error
                   /\ UNCHANGED s_locals
              ELSE /\ s_pc' = "decay"
                   /\ s_locals' =
                         Combine(s_waveform, t, tr, before,
                                 AfterSide(s_waveform, t, tr.maxabs, tr.trough_loc))
                   /\ UNCHANGED s_error
    /\ UNCHANGED <<s_waveform, s_param, s_geometry, s_window, s_slope, s_baseline>>
    /\ UNCHANGED <<batchVars, dupVars, rpvVars, keepVars, typeVars, missVars, driftVars,
                   sharedVars, presenceVars,
                   distVars>>

\* channel_positions as the call reads it: the smallest gap between channel
\* rows below 30 or not, and enough channels within CHANNEL_TOLERANCE of the
\* peak channel (MIN_CHANNELS_FOR_FIT) or not
Geometries == {"rows_apart", "few_channels", "dense"}

\* lines 1204-1305: the option is written back to param, and curve_fit
\* either returns the slope or raises RuntimeError, which nothing catches
SpatialDecay ==
    /\ s_pc = "decay"
    /\ IF ~s_param.compute_spatial_decay
       THEN /\ s_pc' = "baseline"
            /\ UNCHANGED <<s_param, s_geometry, s_slope, s_error>>
       ELSE \E g \in Geometries : \E converged \in BOOLEAN :
            /\ s_geometry' = g
            /\ s_param' = [s_param EXCEPT !.compute_spatial_decay = (g # "rows_apart")]
            /\ CASE g = "rows_apart" ->
                       /\ s_pc' = "baseline"
                       /\ UNCHANGED <<s_slope, s_error>>
                 [] g = "few_channels" ->
                       /\ s_pc' = "baseline"
                       /\ s_slope' = IsNaN
                       /\ UNCHANGED s_error
                 [] g = "dense" /\ converged ->
                       /\ s_pc' = "baseline"
                       /\ s_slope' = Scalar
                       /\ UNCHANGED s_error
                 [] g = "dense" /\ ~converged ->
                       /\ s_pc' = "raised"
                       /\ s_error' = "RuntimeError"
                       /\ UNCHANGED s_slope
    /\ UNCHANGED <<s_waveform, s_window, s_locals, s_baseline>>
    /\ UNCHANGED <<batchVars, dupVars, rpvVars, keepVars, typeVars, missVars, driftVars,
                   sharedVars, presenceVars,
                   distVars>>

\* lines 1307-1338: the baseline fraction when the window is not NaN, then
\* the return, which reads every variable of the tuple
BaselineAndReturn ==
    /\ s_pc = "baseline"
    /\ \E w \in {"nan", "samples"} :
         /\ s_window' = w
         /\ s_baseline' = IF w = "nan" THEN s_baseline ELSE Scalar
         /\ IF \/ s_slope.kind = "unbound"
               \/ w = "nan"
               \/ s_locals.peak_before_width.kind = "unbound"
            THEN s_pc' = "raised" /\ s_error' = "UnboundLocalError"
            ELSE s_pc' = "returned" /\ UNCHANGED s_error
    /\ UNCHANGED <<s_waveform, s_param, s_geometry, s_locals, s_slope>>
    /\ UNCHANGED <<batchVars, dupVars, rpvVars, keepVars, typeVars, missVars, driftVars,
                   sharedVars, presenceVars,
                   distVars>>

NextShape ==
    \/ ShapeOfNaN
    \/ DetectPeaks
    \/ SpatialDecay
    \/ BaselineAndReturn

SpecShape == InitShape /\ [][NextShape]_vars

(***************************************************************************)
(* waveform_shape called for several units with one param object.  The     *)
(* calls may interleave; a step of a call is one read or one write of      *)
(* param["compute_spatial_decay"] together with the code up to the next.   *)
(***************************************************************************)
\* a waveform with its trough at 0-based index k, a peak after it and a
\* smaller peak before it
WaveformWithTroughAt(k) ==
    [i \in 1..WaveLen |->
        IF i = k + 1 THEN 0 - 2
        ELSE IF i = k + 2 THEN 1
        ELSE IF i = k - 1 THEN 1 ELSE 0]

\* what a call is given for its unit: the waveform, and what the unit's
\* channels make of the fit: fewer than MIN_CHANNELS_FOR_FIT channels within
\* CHANNEL_TOLERANCE of the peak channel, a curve_fit that converges, or one
\* that does not
UnitInputs ==
    {[pc |-> "peaks", waveform |-> WaveformWithTroughAt(k), fit |-> f,
      locals |-> << >>, seen |-> FALSE, slope |-> Unbound,
      baseline |-> Unbound, error |-> "none"] :
        k \in {0, 3}, f \in {"few_channels", "converges", "fails"}}

\* (mutation) line 1208 writes True and line 1206 False
OptionWrittenInverted(rows_close) == ~rows_close

\* lines 1205-1208: the value written to param["compute_spatial_decay"]
OptionWritten(rows_close) == rows_close

\* lines 1025-1202 for a unit
PeaksOf(param, unit) ==
    LET t == param.min_thresh_detect_peaks_troughs
        tr == TroughStage(unit.waveform, t)
        before == BeforeSide(unit.waveform, t, tr.maxabs, tr.trough_loc)
    IN  IF before.error # "none"
        THEN [unit EXCEPT !.pc = "raised", !.error = before.error]
        ELSE [unit EXCEPT
                 !.pc = "option",
                 !.locals = Combine(unit.waveform, t, tr, before,
                                    AfterSide(unit.waveform, t, tr.maxabs,
                                              tr.trough_loc))]

\* lines 1209-1305 for a unit that found the option set or not
DecayOf(option, unit) ==
    IF ~option THEN [unit EXCEPT !.pc = "baseline"]
    ELSE IF unit.fit = "few_channels"
    THEN [unit EXCEPT !.pc = "baseline", !.slope = IsNaN]
    ELSE IF unit.fit = "converges"
    THEN [unit EXCEPT !.pc = "baseline", !.slope = Scalar]
    ELSE [unit EXCEPT !.pc = "raised", !.error = "RuntimeError"]

\* lines 1307-1338 for a unit
ReturnOf(window, unit) ==
    LET baseline == IF window = "nan" THEN unit.baseline ELSE Scalar
    IN  IF \/ unit.slope.kind = "unbound"
           \/ baseline.kind = "unbound"
           \/ unit.locals.peak_before_width.kind = "unbound"
        THEN [unit EXCEPT !.pc = "raised", !.baseline = baseline,
                          !.error = "UnboundLocalError"]
        ELSE [unit EXCEPT !.pc = "returned", !.baseline = baseline]

InitShared ==
    /\ DistOff
    /\ PresenceOff
    /\ MissOff
    /\ TypeOff
    /\ BatchOff
    /\ DupOff
    /\ RpvOff
    /\ KeepOff
    /\ ShapeOff
    /\ DriftOff
    /\ u_param \in ShapeParams
    /\ u_param0 = u_param
    /\ u_rows_close \in BOOLEAN
    /\ u_window \in {"nan", "samples"}
    /\ u_unit \in [1..NumUnits -> UnitInputs]
    /\ u_writes = {}

\* lines 1025-1202 of the call for unit u
UnitPeaks(u) ==
    /\ u_unit[u].pc = "peaks"
    /\ u_unit' = [u_unit EXCEPT ![u] = PeaksOf(u_param, u_unit[u])]
    /\ UNCHANGED <<u_param, u_param0, u_rows_close, u_window, u_writes>>
    /\ UNCHANGED <<batchVars, dupVars, rpvVars, keepVars, typeVars, missVars,
                   shapeVars, driftVars, presenceVars,
                   distVars>>

\* line 1204: the first read of the option
UnitReadsOption(u) ==
    /\ u_unit[u].pc = "option"
    /\ u_unit' = [u_unit EXCEPT ![u].seen = u_param.compute_spatial_decay,
                                ![u].pc = IF u_param.compute_spatial_decay
                                          THEN "write" ELSE "branch"]
    /\ UNCHANGED <<u_param, u_param0, u_rows_close, u_window, u_writes>>
    /\ UNCHANGED <<batchVars, dupVars, rpvVars, keepVars, typeVars, missVars,
                   shapeVars, driftVars, presenceVars,
                   distVars>>

\* lines 1205-1208: the option written from the geometry
UnitWritesOption(u) ==
    /\ u_unit[u].pc = "write"
    /\ u_param' = [u_param EXCEPT
                      !.compute_spatial_decay = OptionWritten(u_rows_close)]
    /\ u_writes' = u_writes \cup
                      {<<u_param.compute_spatial_decay, OptionWritten(u_rows_close)>>}
    /\ u_unit' = [u_unit EXCEPT ![u].pc = "branch"]
    /\ UNCHANGED <<u_param0, u_rows_close, u_window>>
    /\ UNCHANGED <<batchVars, dupVars, rpvVars, keepVars, typeVars, missVars,
                   shapeVars, driftVars, presenceVars,
                   distVars>>

\* lines 1209-1305: the second read of the option and the fit
UnitDecay(u) ==
    /\ u_unit[u].pc = "branch"
    /\ u_unit' = [u_unit EXCEPT
                     ![u] = DecayOf(u_param.compute_spatial_decay, u_unit[u])]
    /\ UNCHANGED <<u_param, u_param0, u_rows_close, u_window, u_writes>>
    /\ UNCHANGED <<batchVars, dupVars, rpvVars, keepVars, typeVars, missVars,
                   shapeVars, driftVars, presenceVars,
                   distVars>>

\* lines 1307-1338
UnitReturns(u) ==
    /\ u_unit[u].pc = "baseline"
    /\ u_unit' = [u_unit EXCEPT ![u] = ReturnOf(u_window, u_unit[u])]
    /\ UNCHANGED <<u_param, u_param0, u_rows_close, u_window, u_writes>>
    /\ UNCHANGED <<batchVars, dupVars, rpvVars, keepVars, typeVars, missVars,
                   shapeVars, driftVars, presenceVars,
                   distVars>>

NextShared ==
    \E u \in 1..NumUnits :
        \/ UnitPeaks(u)
        \/ UnitReadsOption(u)
        \/ UnitWritesOption(u)
        \/ UnitDecay(u)
        \/ UnitReturns(u)

SpecShared == InitShared /\ [][NextShared]_vars

(***************************************************************************)
(* Properties of one remove_duplicates call (SpecBatch)                    *)
(***************************************************************************)
BatchIdx == DOMAIN b_times

\* the batch times as remove_duplicates sees them
BatchTime32(i) == F32(b_times[i])

SamePeakChannel(i, j) == ChannelOf[b_clusters[i]] = ChannelOf[b_clusters[j]]

\* a pair the code treats as duplicates: same peak channel, float32 times
\* within the window
DupPair(i, j) ==
    /\ i # j
    /\ SamePeakChannel(i, j)
    /\ Abs(BatchTime32(i) - BatchTime32(j)) <= duplicate_spike_window_samples

\* a violating pair in the words of the claims: same peak channel, sample
\* times within the window
TruePair(i, j) ==
    /\ i # j
    /\ SamePeakChannel(i, j)
    /\ Abs(b_times[i] - b_times[j]) <= duplicate_spike_window_samples

\* no third spike on the peak channel is within the window of a spike of G
Isolated(G) == \A i \in G : \A k \in BatchIdx \ G : ~DupPair(i, k)

\* spikes of one unit, mutually within the window and within the index radius
IntraGroup(G) ==
    \A i \in G : \A j \in G \ {i} :
        /\ b_clusters[i] = b_clusters[j]
        /\ DupPair(i, j)
        /\ Abs(i - j) <= Radius

C3_InterUnitDiscardsMoreCommon ==
    (b_pc = "out" /\ Len(b_times) > Radius) =>
        \A i \in BatchIdx : \A j \in BatchIdx :
            (/\ b_clusters[i] # b_clusters[j]
             /\ DupPair(i, j) /\ Abs(i - j) <= Radius
             /\ Isolated({i, j})
             /\ unit_spike_counts(b_clusters, b_clusters[i])
                  > unit_spike_counts(b_clusters, b_clusters[j]))
            => (b_remove[i] = 1 /\ b_remove[j] = 0)

\* C25: a spike is marked removed only when it has a partner at most Radius
\* indices away that shares its peak channel and is within the window; a
\* spike at the start of a batch is not matched with spikes at its end
\* (checked on batches longer than Radius)
C25_RemovedOnlyWithinRadius ==
    (b_pc = "out" /\ Len(b_times) > Radius) =>
        \A k \in BatchIdx :
            b_remove[k] = 1 =>
                \E j \in BatchIdx : Abs(j - k) <= Radius /\ DupPair(k, j)

(***************************************************************************)
(* Properties of remove_duplicate_spikes (SpecDup)                         *)
(***************************************************************************)
\* C1 (as stated): a second run on the pruned output of a first run marks no
\* further spike for removal
C1_SecondRunRemovesNothing ==
    (d_pc = "done" /\ d_hist.input = "pruned") =>
        \A i \in DOMAIN d_mask : d_mask[i] = 0

\* C4 (as stated): when a saved mask exists at the call and recompute is not
\* forced, the mask is reloaded: no batch pass runs and nothing is saved again
C4_SavedMaskIsReloaded ==
    (/\ d_pc = "done"
     /\ d_hist.file_at_call = "file"
     /\ ~d_param.recompute_duplicate_spike)
    => (d_hist.loaded /\ d_hist.batch_calls = 0 /\ ~d_hist.saved)

\* the units that still own a spike after pruning, in ascending order
SurvivingUnits ==
    Pruned(unique_templates(d_clusters), empty_unit_idx(d_clusters, d_mask),
           Len(unique_templates(d_clusters)))

\* C21: after pruning, the raw waveforms, their peak channels, the SNR and
\* the returned peak_channels each hold one entry per surviving unit, in the
\* order of non_empty_units, and the returned spike_clusters are the original
\* ids of the surviving spikes.
C21_EmptyUnitsDroppedEverywhere ==
    d_pc = "done" =>
        /\ d_out.non_empty_units
              = {SurvivingUnits[r] : r \in DOMAIN SurvivingUnits}
        /\ d_out.raw_waveforms_full = SurvivingUnits
        /\ d_out.signal_to_noise_ratio = SurvivingUnits
        /\ d_out.raw_waveforms_peak_channel
              = [r \in DOMAIN SurvivingUnits |-> ChannelOf[SurvivingUnits[r]]]
        /\ Len(d_out.peak_channels) = Len(SurvivingUnits)
        /\ \A k \in DOMAIN d_out.spike_clusters :
              d_out.spike_clusters[k] \in good_templates_idx(d_clusters)
        /\ d_out.spike_clusters = Pruned(d_clusters, d_mask, Len(d_clusters))

\* C30: a call with param["remove_duplicate_spike"] false returns the tuple
\* of the enabled call with the inputs passed through: no spike removed, no
\* unit dropped.
C30_DisabledPassesInputsThrough ==
    (d_pc \in {"done", "none"} /\ ~d_param.remove_duplicate_spike) =>
        /\ d_out # None
        /\ d_out.spike_times_samples = d_times
        /\ d_out.spike_clusters = d_clusters
        /\ d_out.template_amplitudes = d_amps
        /\ d_out.peak_channels = d_peak
        /\ d_out.non_empty_units = good_templates_idx(d_clusters)

\* the indices (1-based) a batch starting at start_idx > 0 shares with the
\* batch before it
SharedZone(start_idx, n) ==
    IF start_idx = 0 THEN {}
    ELSE {i \in 1..n : start_idx < i /\ i <= start_idx + overlap_size}

\* C5 (as stated): a removal the earlier batch decided in the zone it shares
\* with the next batch is not undone when the next batch is processed
C5_FirstWriterWins ==
    [][(d_pc = "batches" /\ d_starts # << >>) =>
          \A i \in SharedZone(Head(d_starts), Len(d_mask)) :
              d_mask[i] = 1 => d_mask'[i] = 1]_vars

(***************************************************************************)
(* Properties of fraction_RP_violations (SpecRpv)                          *)
(***************************************************************************)
\* the cells already computed: (chunk, tauR index), 0-based
DoneCells ==
    {cell \in (0..(Len(RpvTimeChunks) - 2))
              \X (0..(Len(tauR_window(r_param, r_use_this_tauR)) - 1)) :
        \/ r_pc = "done"
        \/ cell[1] < r_cell[1]
        \/ cell[1] = r_cell[1] /\ cell[2] < r_cell[2]}

\* the violations a mode observes in a chunk for the tauR of a column
ObservedViolations(c, i) ==
    LET chunk == chunk_spike_times(r_spikes, RpvTimeChunks, c)
        tauR == tauR_window(r_param, r_use_this_tauR)[i + 1]
    IN  IF r_param.use_hill_method THEN HillViolations(chunk, tauR)
        ELSE PairViolations(chunk, tauR, r_param.tauC)

\* C6 (as stated): in both modes every computed fraction is in [0, 1], and a
\* chunk with no observed violation has fraction exactly 0
C6_FractionInRangeZeroWhenNoViolation ==
    r_pc \in {"loop", "done"} =>
        \A cell \in DoneCells :
            LET f == fraction_RPVs[cell[1] + 1][cell[2] + 1]
            IN  /\ (0 <= f /\ f <= Scale)
                /\ ((ObservedViolations(cell[1], cell[2]) = 0) => (f = 0))

\* C23: in both modes the violation count returned for a computed cell is
\* the number of violating pairs the mode counted for that chunk and tauR;
\* with a single tauR index given, both matrices have one column, the column
\* of that index in the full computation.
C23_CountsAreReturned ==
    r_pc \in {"loop", "done"} =>
        /\ \A cell \in DoneCells :
              num_violations[cell[1] + 1][cell[2] + 1]
                  = ObservedViolations(cell[1], cell[2])
        /\ r_use_this_tauR.given =>
              \A cell \in DoneCells :
                 LET full == RpvCell(r_spikes, RpvTimeChunks, r_param,
                                     tauR_full_window(r_param)[r_use_this_tauR.idx + 1],
                                     cell[1])
                 IN  /\ cell[2] = 0
                     /\ Len(fraction_RPVs[cell[1] + 1]) = 1
                     /\ Len(num_violations[cell[1] + 1]) = 1
                     /\ fraction_RPVs[cell[1] + 1][1] = full.frac
                     /\ num_violations[cell[1] + 1][1] = full.num

\* the spikes of the chunk of a cell
SpikesInChunk(c) == Cardinality(chunk_spike_times(r_spikes, RpvTimeChunks, c))

\* C27: in the Hill mode the violation count of a chunk is at most
\* n_chunk - 1 (0 for an empty chunk), and the overestimate branch is never
\* taken.
C27_HillNeverOverestimates ==
    (r_pc \in {"loop", "done"} /\ r_param.use_hill_method) =>
        \A cell \in DoneCells :
            /\ num_violations[cell[1] + 1][cell[2] + 1]
                   <= IF SpikesInChunk(cell[1]) = 0 THEN 0
                      ELSE SpikesInChunk(cell[1]) - 1
            /\ overestimate_bool[cell[1] + 1][cell[2] + 1] = 0

\* a Hill-mode cell whose equation has complex roots, the case in which the
\* count is compared with the spike count
C27_Witness ==
    /\ r_pc = "done" /\ r_param.use_hill_method
    /\ \E cell \in DoneCells :
         LET n == SpikesInChunk(cell[1])
             v == num_violations[cell[1] + 1][cell[2] + 1]
             tauR == tauR_window(r_param, r_use_this_tauR)[cell[2] + 1]
             k == 2 * (tauR - r_param.tauC) * n * n
         IN  /\ v > 0
             /\ v = n - 1
             /\ k * k - 4 * k * v * (RpvTimeChunks[cell[1] + 2]
                                        - RpvTimeChunks[cell[1] + 1]) < 0

(***************************************************************************)
(* Properties of time_chunks_to_keep (SpecKeep)                            *)
(***************************************************************************)
\* number of chunks, and the good chunks (0-based) as the selector marks them
NumChunks == Len(k_time_chunks) - 1

GoodSet ==
    {c \in 0..(NumChunks - 1) :
        /\ k_missing[c + 1] # NaN
        /\ k_missing[c + 1] < KeepParam.max_perc_spikes_missing
        /\ k_fraction[c + 1][k_out.use_tauR + 1] < KeepParam.max_RPV}

\* a maximal run a..b of consecutive good chunks
IsRun(a, b) ==
    /\ a <= b
    /\ \A c \in a..b : c \in GoodSet
    /\ (a - 1) \notin GoodSet /\ (b + 1) \notin GoodSet

\* the returned span is chunk a's start edge to chunk b's end edge
SpanIs(a, b) ==
    /\ k_out.use_this_time_start = k_time_chunks[a + 1]
    /\ k_out.use_this_time_end = k_time_chunks[b + 2]

\* C7 (as stated): when all n >= 2 chunks are good the span is the whole
\* recording and no spike of the unit is dropped
C7_AllGoodKeepsWholeRecording ==
    (k_pc = "out" /\ NumChunks >= 2 /\ GoodSet = 0..(NumChunks - 1)) =>
        /\ SpanIs(0, NumChunks - 1)
        /\ k_out.these_spike_times = k_spikes

\* C8 (as stated): with a good chunk, the span is that of the longest run of
\* consecutive good chunks, the earliest of the longest runs
C8_SpanIsLongestGoodRun ==
    (k_pc = "out" /\ GoodSet # {}) =>
        \E a \in GoodSet : \E b \in GoodSet :
            /\ IsRun(a, b)
            /\ \A a2 \in GoodSet : \A b2 \in GoodSet :
                  IsRun(a2, b2) =>
                      \/ b2 - a2 < b - a
                      \/ b2 - a2 = b - a /\ a <= a2
            /\ SpanIs(a, b)

\* no two good chunks are adjacent
NoneAdjacent == \A c \in GoodSet : (c + 1) \notin GoodSet

\* C9: one good chunk, or several of which no two are adjacent, gives the
\* bounds of the first good chunk; no good chunk gives the whole recording
C9_IsolatedGoodChunkOrWholeRecording ==
    k_pc = "out" =>
        /\ (GoodSet # {} /\ NoneAdjacent) =>
              \E k \in GoodSet : (\A c \in GoodSet : k <= c) /\ SpanIs(k, k)
        /\ (GoodSet = {}) => SpanIs(0, NumChunks - 1)

\* C9 witness: several good chunks, none adjacent, the first of them not the
\* first chunk, and the span returned is that chunk's
C9_Witness ==
    /\ k_pc = "out"
    /\ Cardinality(GoodSet) >= 2 /\ NoneAdjacent
    /\ 0 \notin GoodSet
    /\ \E k \in GoodSet : SpanIs(k, k)

(***************************************************************************)
(* Properties of get_quality_unit_type (SpecType)                          *)
(***************************************************************************)
\* C10: a unit with n_peaks above max_n_peaks is NOISE whatever its other
\* metrics, the options and the non-somatic predicate are
C10_TooManyPeaksIsNoise ==
    (/\ q_pc = "out"
     /\ q_metrics.n_peaks # NaN
     /\ q_metrics.n_peaks > q_param.max_n_peaks) =>
        (unit_type = 0 /\ unit_type_string = "NOISE")

\* C10 witness: too many peaks on a unit that an MUA rule and the non-somatic
\* predicate both match, without the split option, labelled NOISE
C10_Witness ==
    /\ q_pc = "out"
    /\ q_metrics.n_peaks = 3
    /\ q_metrics.fraction_RPVs = 3
    /\ q_metrics.main_peak_to_trough_ratio = 3
    /\ is_non_somatic(q_param, q_metrics)
    /\ ~q_param.split_good_and_mua_non_somatic
    /\ unit_type = 0 /\ unit_type_string = "NOISE"

\* the unit passes every noise check and is not flagged non-somatic
PassesNoiseAndSomatic ==
    /\ ~noise_mask(q_param, q_metrics)
    /\ ~is_non_somatic(q_param, q_metrics)

\* an MUA rule matches once the named metric is taken out (set to NaN)
MuaWithout(metric) ==
    mua_mask(q_param, [q_metrics EXCEPT ![metric] = NaN], NaN)

\* C11 (as stated): with distance metrics on, a unit past the noise checks and
\* not non-somatic is MUA when isolation_dist is below iso_d_min or l_ratio is
\* above lratio_max, and a high isolation_dist alone does not make it MUA
C11_LowIsolationOrHighLRatioIsMua ==
    (q_pc = "out" /\ q_param.compute_distance_metrics /\ PassesNoiseAndSomatic) =>
        /\ ((\/ (q_metrics.isolation_dist # NaN
                  /\ q_metrics.isolation_dist < q_param.iso_d_min)
              \/ (q_metrics.l_ratio # NaN
                  /\ q_metrics.l_ratio > q_param.lratio_max))
                => unit_type = 2)
        /\ ((/\ q_metrics.isolation_dist # NaN
              /\ q_metrics.isolation_dist > q_param.iso_d_min
              /\ ~MuaWithout("isolation_dist"))
                => unit_type # 2)

\* every metric is a number within the thresholds as the specification reads
\* them (isolation distance not below its minimum)
WithinAllThresholds ==
    /\ \A m \in DOMAIN q_metrics : q_metrics[m] # NaN
    /\ q_metrics.n_peaks = 1 /\ q_metrics.n_troughs = 1
    /\ q_metrics.waveform_duration_peak_trough >= q_param.min_wv_duration
    /\ q_metrics.waveform_duration_peak_trough <= q_param.max_wv_duration
    /\ q_metrics.waveform_baseline_flatness <= q_param.max_wv_baseline_fraction
    /\ q_metrics.scnd_peak_to_trough_ratio
          <= q_param.max_scnd_peak_to_trough_ratio_noise
    /\ q_metrics.spatial_decay_slope >= q_param.min_spatial_decay_slope
    /\ q_metrics.spatial_decay_slope >= q_param.min_spatial_decay_slope_exp
    /\ q_metrics.spatial_decay_slope <= q_param.max_spatial_decay_slope_exp
    /\ q_metrics.percent_missing_gaussian <= q_param.max_perc_spikes_missing
    /\ q_metrics.fraction_RPVs <= q_param.max_RPV
    /\ q_metrics.presence_ratio >= q_param.min_presence_ratio
    /\ q_metrics.n_spikes >= q_param.min_num_spikes_total
    /\ q_metrics.raw_amplitude >= q_param.min_amplitude
    /\ q_metrics.signal_to_noise_ratio >= q_param.min_SNR
    /\ q_metrics.max_drift_estimate <= q_param.max_drift
    /\ q_metrics.isolation_dist >= q_param.iso_d_min
    /\ q_metrics.l_ratio <= q_param.lratio_max

\* C12 (as stated): a unit with every metric within its thresholds and the
\* non-somatic predicate false is GOOD
C12_CleanUnitIsGood ==
    (/\ q_pc = "out"
     /\ WithinAllThresholds
     /\ ~is_non_somatic(q_param, q_metrics)) =>
        (unit_type = 1 /\ unit_type_string = "GOOD")

\* C13: past the noise checks and not non-somatic, fraction_RPVs above
\* max_RPV gives MUA whatever the other MUA metrics are, and fraction_RPVs
\* equal to max_RPV gives GOOD when no other MUA rule matches
C13_RpvAboveMaxIsMua ==
    (q_pc = "out" /\ PassesNoiseAndSomatic /\ q_metrics.fraction_RPVs # NaN) =>
        /\ (q_metrics.fraction_RPVs > q_param.max_RPV
              => (unit_type = 2 /\ unit_type_string = "MUA"))
        /\ ((q_metrics.fraction_RPVs = q_param.max_RPV
              /\ ~MuaWithout("fraction_RPVs"))
              => (unit_type = 1 /\ unit_type_string = "GOOD"))

\* C13 witness: fraction_RPVs above max_RPV together with a presence ratio
\* below its minimum, labelled MUA
C13_Witness ==
    /\ q_pc = "out"
    /\ PassesNoiseAndSomatic
    /\ q_metrics.fraction_RPVs = 3
    /\ q_metrics.presence_ratio = 0
    /\ unit_type = 2 /\ unit_type_string = "MUA"

\* the code of the unit before the non-somatic relabelling
CodeBeforeRelabel ==
    IF noise_mask(q_param, q_metrics) THEN 0
    ELSE IF mua_mask(q_param, q_metrics, NaN) THEN 2 ELSE 1

\* C14: with the split option a non-somatic GOOD unit gets code 3 and a
\* non-somatic MUA unit code 4; without it every non-noise non-somatic unit
\* gets code 3 and code 4 never occurs; a unit not flagged non-somatic keeps
\* its code; every unit ends with one of the five labels, the one of its code
C14_NonSomaticRelabelling ==
    q_pc = "out" =>
        LET before == CodeBeforeRelabel
            nonsoma == is_non_somatic(q_param, q_metrics)
            split == q_param.split_good_and_mua_non_somatic
        IN  /\ (split /\ nonsoma /\ before = 1) =>
                  (unit_type = 3 /\ unit_type_string = "NON-SOMA GOOD")
            /\ (split /\ nonsoma /\ before = 2) =>
                  (unit_type = 4 /\ unit_type_string = "NON-SOMA MUA")
            /\ (~split /\ nonsoma /\ before # 0) =>
                  (unit_type = 3 /\ unit_type_string = "NON-SOMA")
            /\ (~split) => (unit_type # 4)
            /\ (~nonsoma) => (unit_type = before)
            /\ unit_type \in 0..4
            /\ unit_type_string \in
                  {"NOISE", "GOOD", "MUA", "NON-SOMA", "NON-SOMA GOOD",
                   "NON-SOMA MUA"}
            /\ (unit_type_string = "NOISE") <=> (unit_type = 0)
            /\ (unit_type_string = "GOOD") <=> (unit_type = 1)
            /\ (unit_type_string = "MUA") <=> (unit_type = 2)
            /\ (unit_type_string = "NON-SOMA MUA") <=> (unit_type = 4)

\* C14 witness: a non-somatic MUA unit relabelled 4 under the split option
C14_Witness ==
    /\ q_pc = "out"
    /\ q_param.split_good_and_mua_non_somatic
    /\ is_non_somatic(q_param, q_metrics)
    /\ CodeBeforeRelabel = 2
    /\ unit_type = 4 /\ unit_type_string = "NON-SOMA MUA"

\* C15 (as stated): a NaN metric never by itself changes the label; the unit
\* is classified as with that metric at a value no rule objects to
C15_NaNMetricIsIgnored ==
    q_pc = "out" =>
        \A m \in DOMAIN q_metrics :
            q_metrics[m] = NaN =>
                unit_type = get_quality_unit_type(
                                q_param, [q_metrics EXCEPT ![m] = CleanUnit[m]])

\* C15 amended: the same for every metric but n_peaks, and a NaN n_peaks
\* makes the unit NOISE
C15_NaNMetricIsIgnoredExceptPeaks ==
    q_pc = "out" =>
        /\ \A m \in DOMAIN q_metrics \ {"n_peaks"} :
              q_metrics[m] = NaN =>
                  unit_type = get_quality_unit_type(
                                  q_param, [q_metrics EXCEPT ![m] = CleanUnit[m]])
        /\ q_metrics.n_peaks = NaN => unit_type = 0

\* C15 witness: NaN fraction_RPVs and NaN presence_ratio on a unit with no
\* other irregularity, labelled GOOD
C15_Witness ==
    /\ q_pc = "out"
    /\ q_metrics.fraction_RPVs = NaN /\ q_metrics.presence_ratio = NaN
    /\ \A m \in DOMAIN q_metrics \ {"fraction_RPVs", "presence_ratio"} :
          q_metrics[m] = CleanUnit[m]
    /\ unit_type = 1

(***************************************************************************)
(* Properties of perc_spikes_missing (SpecMiss)                            *)
(***************************************************************************)
\* C16 (as stated): a curve fit that does not converge is caught: no error
\* leaves the function, the chunk's estimate is NaN and the loop goes on
C16_FitFailureIsCaught ==
    /\ m_pc # "raised"
    /\ \A c \in m_failed :
          /\ m_idx > c
          /\ percent_missing_gaussian[c + 1] = NaN

(***************************************************************************)
(* max_drift_estimate, lines 897-920.  Spike times are whole time units;   *)
(* the bin width and the bin edges are kept in half units, so that the     *)
(* halved lifetime of line 898 is exact.  Medians are kept doubled.        *)
(***************************************************************************)
\* ceil(a / b) for a >= 0, b > 0
CeilDiv(a, b) == (a + b - 1) \div b

\* np.arange(start, stop, step): ceil((stop - start) / step) values
arange(start, stop, step) ==
    [k \in 1..CeilDiv(stop - start, step) |-> start + (k - 1) * step]

MinOfSet(S) == CHOOSE v \in S : \A u \in S : v <= u

MaxOfSet(S) == CHOOSE v \in S : \A u \in S : v >= u

\* the k-th smallest of the values f takes on S
Kth(f, S, k) ==
    CHOOSE v \in {f[t] : t \in S} :
        /\ Cardinality({t \in S : f[t] < v}) < k
        /\ Cardinality({t \in S : f[t] <= v}) >= k

\* twice np.nanmedian of the depths of the spikes in S, NaN for none
nanmedian(f, S) ==
    LET n == Cardinality(S)
    IN  IF n = 0 THEN NaN
        ELSE IF n % 2 = 1 THEN 2 * Kth(f, S, (n + 1) \div 2)
        ELSE Kth(f, S, n \div 2) + Kth(f, S, n \div 2 + 1)

\* lines 897-898, in half units: the lifetime halved when it is shorter than
\* twice the configured width
AdaptedBinSize(lifetime, bin_size) ==
    IF lifetime < 2 * bin_size THEN lifetime ELSE 2 * bin_size

Depths == {0, 1}

InitDrift ==
    /\ DistOff
    /\ PresenceOff
    /\ SharedOff
    /\ MissOff
    /\ TypeOff
    /\ BatchOff
    /\ DupOff
    /\ RpvOff
    /\ KeepOff
    /\ ShapeOff
    /\ dr_pc = "bins"
    /\ dr_times \in {S \in SUBSET (0..MaxTime) : Cardinality(S) >= 2}
    /\ dr_depth \in [dr_times -> Depths]
    /\ dr_param \in {[drift_bin_size |-> d] : d \in 1..MaxBin}
    /\ drift_bin_size = 2 * dr_param.drift_bin_size
    /\ time_bins = << >>
    /\ median_spike_depth = << >>
    /\ dr_i = 0
    /\ dr_out = << >>

\* lines 897-904: the bin width, the edges, and one median per edge but the last
TimeBins ==
    /\ dr_pc = "bins"
    /\ LET first == MinOfSet(dr_times)
           last == MaxOfSet(dr_times)
           width == AdaptedBinSize(last - first, dr_param.drift_bin_size)
       IN  /\ drift_bin_size' = width
           /\ \E edges \in {arange(2 * first, 2 * last, width)} :
                /\ time_bins' = edges
                /\ median_spike_depth' = [i \in 1..(Len(edges) - 1) |-> 0]
    /\ dr_i' = 0
    /\ dr_pc' = "loop"
    /\ UNCHANGED <<dr_times, dr_depth, dr_param, dr_out>>
    /\ UNCHANGED <<batchVars, dupVars, rpvVars, keepVars, typeVars, missVars, shapeVars,
                   sharedVars, presenceVars,
                   distVars>>

\* lines 905-913: the median depth of the spikes of one bin
MedianOfBin ==
    /\ dr_pc = "loop" /\ dr_i < Len(median_spike_depth)
    /\ LET time_bin_start == time_bins[dr_i + 1]
           in_bin == {t \in dr_times :
                        /\ 2 * t >= time_bin_start
                        /\ 2 * t < time_bin_start + drift_bin_size}
       IN  median_spike_depth' =
               [median_spike_depth EXCEPT ![dr_i + 1] = nanmedian(dr_depth, in_bin)]
    /\ dr_i' = dr_i + 1
    /\ UNCHANGED <<dr_pc, dr_times, dr_depth, dr_param, drift_bin_size, time_bins, dr_out>>
    /\ UNCHANGED <<batchVars, dupVars, rpvVars, keepVars, typeVars, missVars, shapeVars,
                   sharedVars, presenceVars,
                   distVars>>

\* the medians that are not NaN, in bin order
WithoutNaN(m) == SelectSeq(m, LAMBDA v : v # NaN)

\* lines 914-920
DriftReturn ==
    /\ dr_pc = "loop" /\ dr_i = Len(median_spike_depth)
    /\ LET kept == WithoutNaN(median_spike_depth)
           values == {kept[i] : i \in DOMAIN kept}
       IN  dr_out' =
             [max_drift_estimate |->
                  IF values = {} THEN NaN
                  ELSE MaxOfSet(values) - MinOfSet(values),
              cumulative_drift_estimate |->
                  IF Len(kept) <= 1 THEN 0
                  ELSE SumTo([i \in 1..(Len(kept) - 1) |->
                                 Abs(kept[i + 1] - kept[i])],
                             Len(kept) - 1)]
    /\ dr_pc' = "returned"
    /\ UNCHANGED <<dr_times, dr_depth, dr_param, drift_bin_size, time_bins,
                   median_spike_depth, dr_i>>
    /\ UNCHANGED <<batchVars, dupVars, rpvVars, keepVars, typeVars, missVars, shapeVars,
                   sharedVars, presenceVars,
                   distVars>>

NextDrift ==
    \/ TimeBins
    \/ MedianOfBin
    \/ DriftReturn

SpecDrift == InitDrift /\ [][NextDrift]_vars

(***************************************************************************)
(* presence_ratio, lines 809-833                                           *)
(***************************************************************************)
\* ten times np.percentile(counts, 90): linear interpolation between the
\* sorted counts at position 0.9 * (n - 1), for n >= 1 counts
percentile90(counts) ==
    LET n == Len(counts)
        lower == (9 * (n - 1)) \div 10
        tenths == (9 * (n - 1)) % 10
        a == Kth(counts, DOMAIN counts, lower + 1)
        b == IF lower + 2 <= n THEN Kth(counts, DOMAIN counts, lower + 2) ELSE a
    IN  10 * a + tenths * (b - a)

\* line 828, spikes_per_bin >= 0.05 * np.percentile(spikes_per_bin, 90)
full_bins(counts) ==
    [x \in DOMAIN counts |->
        IF 200 * counts[x] >= percentile90(counts) THEN 1 ELSE 0]

InitPresence ==
    /\ DistOff
    /\ MissOff
    /\ TypeOff
    /\ BatchOff
    /\ DupOff
    /\ RpvOff
    /\ KeepOff
    /\ ShapeOff
    /\ DriftOff
    /\ SharedOff
    /\ pr_pc = "in"
    /\ pr_param \in {[presence_ratio_bin_size |-> b] : b \in 1..2}
    \* a span that np.arange cuts into at least one bin
    /\ pr_span \in {[use_this_time_start |-> 0, use_this_time_end |-> e] :
                      e \in (pr_param.presence_ratio_bin_size + 1)..MaxSpan}
    /\ pr_times \in SUBSET (0..pr_span.use_this_time_end)
    /\ spikes_per_bin = << >>
    /\ pr_ratio = << >>

\* the whole of presence_ratio
PresenceRatio ==
    /\ pr_pc = "in"
    /\ \E presence_ratio_bins \in
            {arange(pr_span.use_this_time_start, pr_span.use_this_time_end,
                    pr_param.presence_ratio_bin_size)} :
       \E counts \in
            {[x \in 1..(Len(presence_ratio_bins) - 1) |->
                Cardinality({t \in pr_times :
                                /\ t >= presence_ratio_bins[x]
                                /\ t < presence_ratio_bins[x + 1]})]} :
         /\ spikes_per_bin' = counts
         /\ pr_ratio' = [num |-> SumTo(full_bins(counts), Len(counts)),
                         den |-> Len(counts)]
    /\ pr_pc' = "out"
    /\ UNCHANGED <<pr_times, pr_span, pr_param>>
    /\ UNCHANGED <<batchVars, dupVars, rpvVars, keepVars, typeVars, missVars,
                   shapeVars, driftVars, sharedVars,
                   distVars>>

NextPresence == PresenceRatio

SpecPresence == InitPresence /\ [][NextPresence]_vars

(***************************************************************************)
(* get_distance_metrics, lines 1384-1520.  The PC features themselves are  *)
(* left out: a row of other_features is stood for by the unit whose spike  *)
(* was written into each of its channel columns, and a Mahalanobis         *)
(* distance by "value" (the target's features are taken to have an         *)
(* invertible covariance whenever it has more spikes than dimensions).     *)
(***************************************************************************)
n_pcs == 3
n_channels_iso_dist == 2

DistUnits == 0..3
\* spike counts of a unit: absent, one spike, two, and the two largest
SpikeCounts == {0, 1, 2, MaxUnitSpikes - 1, MaxUnitSpikes}
\* rows of pc_features_idx: the target's layout <<0, 1>>, one sharing only
\* the target's first channel, one only its second, one sharing none
Layouts == {<<0, 1>>, <<2, 0>>, <<1, 2>>, <<2, 3>>}

\* np.unique(spike_clusters[spike_clusters > 0]), ascending
unique_ids(counts) ==
    LET ids == {u \in DOMAIN counts : u > 0 /\ counts[u] > 0}
    IN  [r \in 1..Cardinality(ids) |->
            CHOOSE u \in ids : Cardinality({v \in ids : v < u}) = r - 1]

\* pc_features_idx[this_unit, 0 : param["n_channels_iso_dist"]]
these_channels(idx, unit) == SubSeq(idx[unit], 1, n_channels_iso_dist)

\* channel_spikes.shape[0]: pc_features[other_spikes, :, common_channel_idx]
\* has shape (1, k, n_pcs) for k spikes, and squeeze() leaves (k, n_pcs),
\* or (n_pcs,) when k = 1
channel_spikes_rows(k) == IF k = 1 THEN n_pcs ELSE k

TotalSpikes(counts) == SumTo([i \in 1..4 |-> counts[i - 1]], 4)

InitDist ==
    /\ MissOff
    /\ TypeOff
    /\ BatchOff
    /\ DupOff
    /\ RpvOff
    /\ KeepOff
    /\ ShapeOff
    /\ DriftOff
    /\ SharedOff
    /\ PresenceOff
    /\ g_pc = "loop"
    /\ this_unit \in {1, 2}
    /\ g_counts \in [DistUnits -> SpikeCounts]
    /\ pc_features_idx \in
          {f \in [DistUnits -> Layouts] :
              f[this_unit] = <<0, 1>> /\ f[0] = <<0, 1>>}
    /\ g_ids = unique_ids(g_counts)
    /\ other_features_ind =
          [r \in 1..TotalSpikes(g_counts) |->
              [c \in 1..n_channels_iso_dist |-> NaN]]
    /\ other_features = << >>
    /\ n_count = 0
    /\ g_out = [isolation_dist |-> "NaN", L_ratio |-> "NaN",
                read |-> FALSE, error |-> "none"]

\* lines 1436-1464: one iteration of the loop over unique_ids
VisitUnit ==
    /\ g_pc = "loop" /\ g_ids # << >>
    /\ LET id == Head(g_ids)
           current_channels == pc_features_idx[id]
           rows == channel_spikes_rows(g_counts[id])
           total == Len(other_features_ind)
           matched ==
               {c \in 1..n_channels_iso_dist :
                   \E j \in DOMAIN current_channels :
                       current_channels[j]
                           = these_channels(pc_features_idx, this_unit)[c]}
       IN  IF id = this_unit
           THEN /\ UNCHANGED <<other_features_ind, n_count, g_out>>
                /\ g_ids' = Tail(g_ids)
                /\ g_pc' = IF Tail(g_ids) = << >> THEN "finish" ELSE "loop"
           ELSE IF /\ matched # {}
                   /\ g_counts[id] > 1
                   /\ n_count + rows > total
           \* a (k, n_pcs) block does not broadcast into a shorter slice
           THEN /\ g_out' = [g_out EXCEPT !.error = "ValueError"]
                /\ g_pc' = "raised"
                /\ UNCHANGED <<other_features_ind, n_count, g_ids>>
           ELSE /\ other_features_ind' =
                       [r \in 1..total |->
                           [c \in 1..n_channels_iso_dist |->
                               IF /\ n_count < r /\ r <= n_count + rows
                                  /\ c \in matched
                               THEN id ELSE other_features_ind[r][c]]]
                /\ n_count' = IF matched # {} THEN n_count + rows
                                              ELSE n_count
                /\ g_ids' = Tail(g_ids)
                /\ g_pc' = IF Tail(g_ids) = << >> THEN "finish" ELSE "loop"
                /\ UNCHANGED g_out
    /\ UNCHANGED <<g_counts, pc_features_idx, this_unit, other_features>>
    /\ UNCHANGED <<batchVars, dupVars, rpvVars, keepVars, typeVars, missVars,
                   shapeVars, driftVars, sharedVars, presenceVars>>

\* other_features[~np.isnan(other_features_ind[:, 0]), :, :]
RECURSIVE KeptRows(_, _)
KeptRows(ind, k) ==
    IF k = 0 THEN << >>
    ELSE IF ind[k][1] # NaN THEN Append(KeptRows(ind, k - 1), ind[k])
         ELSE KeptRows(ind, k - 1)

\* lines 1476-1520: the outputs
DistReturn ==
    /\ g_pc \in {"loop", "finish"} /\ g_ids = << >>
    /\ \E kept \in {KeptRows(other_features_ind, Len(other_features_ind))} :
       LET n_spikes == g_counts[this_unit]
           any == \E r \in DOMAIN other_features_ind :
                      \E c \in 1..n_channels_iso_dist :
                          other_features_ind[r][c] # NaN
           enough == n_spikes > n_channels_iso_dist * n_pcs
           \* np.reshape(other_features, (0, -1)) of an array without rows
           \* cannot infer the -1 and raises ValueError
           reshape_fails == any /\ enough /\ Len(kept) = 0
           read == any /\ enough /\ ~reshape_fails /\ n_count > n_spikes
       IN  /\ other_features' = kept
           /\ g_out' =
                [isolation_dist |->
                     IF read /\ n_spikes < Len(kept) THEN "value" ELSE "NaN",
                 L_ratio |->
                     IF /\ any /\ enough /\ ~reshape_fails
                        /\ ~(read /\ n_spikes >= Len(kept))
                     THEN "value" ELSE "NaN",
                 read |-> read,
                 error |-> IF reshape_fails THEN "ValueError"
                           ELSE IF read /\ n_spikes >= Len(kept)
                           THEN "IndexError" ELSE "none"]
    /\ g_pc' = "done"
    /\ UNCHANGED <<g_counts, pc_features_idx, this_unit, g_ids,
                   other_features_ind, n_count>>
    /\ UNCHANGED <<batchVars, dupVars, rpvVars, keepVars, typeVars, missVars,
                   shapeVars, driftVars, sharedVars, presenceVars>>

NextDist ==
    \/ VisitUnit
    \/ DistReturn

SpecDist == InitDist /\ [][NextDist]_vars

\* ---- SpecShape ---------------------------------------------------------

\* C17: waveform_shape never raises on a waveform without NaN: whatever the
\* waveform and the configuration, no exception leaves the call.
C17_WaveformShapeNeverRaises ==
    (s_pc # "off" /\ s_waveform # << >>) => s_error = "none"

\* DetectPeaks has run and ended at line 1202
PeaksDone == s_pc \in {"decay", "baseline", "returned", "raised"} /\ s_locals # << >>

\* neither side had a peak at the primary prominence threshold
BothFellBack ==
    /\ PeaksDone /\ s_waveform # << >>
    /\ s_locals.fallback_before # "none"
    /\ s_locals.fallback_after # "none"

\* the smaller of the two fall-back peaks is below half of min_prominence
SmallerBelowHalf ==
    LET t == s_param.min_thresh_detect_peaks_troughs
    IN  Min2(s_locals.main_peak_before, s_locals.main_peak_after) * 2 * t.den
            < t.num * MaxOf(AbsSeq(s_waveform))

\* the peaks of the side with the higher fall-back peak, the after side on a tie
LargerSide ==
    IF s_locals.main_peak_before > s_locals.main_peak_after
    THEN s_locals.peaks_before_locs ELSE s_locals.peaks_after_locs

C26_PeakSidesAreOnTheirSide ==
    (PeaksDone /\ s_waveform # << >>) =>
        /\ \A j \in DOMAIN s_locals.peaks_after_locs :
             s_locals.peaks_after_locs[j] >= s_locals.trough_loc
        /\ \A j \in DOMAIN s_locals.peaks_before_locs :
             s_locals.peaks_before_locs[j] < s_locals.trough_loc

\* the amplitude the caller holds for the unit's spike at time t
AmplitudeAt(t) ==
    k_amplitudes[CHOOSE i \in DOMAIN k_spikes : k_spikes[i] = t]

\* ---- SpecDist ----------------------------------------------------------

\* the units other than the target that own spikes and have one of the
\* target's top channels among their channels
SharingUnits ==
    {u \in DistUnits \ {this_unit} :
        /\ g_counts[u] > 0
        /\ \E c \in 1..n_channels_iso_dist :
              \E j \in DOMAIN pc_features_idx[u] :
                  pc_features_idx[u][j]
                      = these_channels(pc_features_idx, this_unit)[c]}

\* the rows of the pooled set that hold features of unit u
PooledRows(u) ==
    {r \in DOMAIN other_features :
        \E c \in 1..n_channels_iso_dist : other_features[r][c] = u}

\* C22: every other unit sharing at least one of the target's top channels,
\* unit 0 and units sharing only a later channel included, has all of its
\* spikes in the pooled set.
C22_EverySharingUnitIsPooled ==
    g_pc = "done" =>
        \A u \in SharingUnits : Cardinality(PooledRows(u)) = g_counts[u]

\* C28: mahal_sort[n_spikes] is read only when the sorted pooled distances
\* have more than n_spikes entries, and a unit with no more spikes than
\* feature dimensions gets NaN for both isolation distance and L-ratio.
C28_IsolationReadIsInBounds ==
    g_pc = "done" =>
        /\ g_out.read => Len(other_features) > g_counts[this_unit]
        /\ g_counts[this_unit] <= n_channels_iso_dist * n_pcs
              => (g_out.isolation_dist = "NaN" /\ g_out.L_ratio = "NaN")

\* ---- SpecPresence ------------------------------------------------------

\* C29: the returned ratio is in [0, 1], and it is below 1 whenever some bin
\* holds no spike.
C29_EmptyBinIsNotActive ==
    pr_pc = "out" =>
        /\ 0 <= pr_ratio.num /\ pr_ratio.num <= pr_ratio.den
        /\ (\E x \in DOMAIN spikes_per_bin : spikes_per_bin[x] = 0)
              => pr_ratio.num < pr_ratio.den

\* ---- SpecShared --------------------------------------------------------

\* what the call for a unit gives when it runs alone on the initial param
AloneOutcome(unit) ==
    LET input == [unit EXCEPT !.pc = "peaks", !.locals = << >>,
                              !.slope = Unbound, !.baseline = Unbound,
                              !.error = "none"]
        peaks == PeaksOf(u_param0, input)
        decay == DecayOf(u_param0.compute_spatial_decay /\ u_rows_close, peaks)
    IN  IF peaks.pc = "raised" THEN peaks
        ELSE IF decay.pc = "raised" THEN decay
        ELSE ReturnOf(u_window, decay)

UnitDone(u) == u_unit[u].pc \in {"returned", "raised"}

\* C24: the outcome of waveform_shape for a unit is the one it has when run
\* alone on the initial configuration, whatever the other calls sharing
\* param did before or in between; every write to
\* param["compute_spatial_decay"] keeps it or takes it from True to False,
\* and the value written is the one the channel geometry gives.
C24_UnitsAreIndependent ==
    /\ \A u \in DOMAIN u_unit :
         UnitDone(u) => [u_unit[u] EXCEPT !.seen = FALSE]
                            = [AloneOutcome(u_unit[u]) EXCEPT !.seen = FALSE]
    /\ \A w \in u_writes :
         /\ w[1] = w[2] \/ (w[1] /\ ~w[2])
         /\ w[2] = u_rows_close

\* a unit finished after another call had switched the option off
C24_Witness ==
    /\ \A u \in DOMAIN u_unit : UnitDone(u)
    /\ u_param0.compute_spatial_decay /\ ~u_param.compute_spatial_decay
    /\ \E u \in DOMAIN u_unit :
         /\ ~u_unit[u].seen
         /\ u_unit[u].error # "ValueError"

\* C20: the truncation of time_chunks_to_keep is non-destructive.  The
\* caller's spike_clusters and spike_times_seconds are as they were; the
\* returned cluster array has the same length, holds -1 exactly for the
\* spikes outside [use_this_time_start, use_this_time_end] and the original
\* id for the others; the returned spike times are the unit's spikes inside
\* the span, in order, each with its own amplitude.
C20_TruncationIsNonDestructive ==
    k_pc = "out" =>
        LET last == k_time_chunks[Len(k_time_chunks)]
            lo == k_out.use_this_time_start
            hi == k_out.use_this_time_end
            times == k_out.these_spike_times
            amps == k_out.these_amplitudes
        IN  /\ k_clusters = SpikeClusters(last)
            /\ k_seconds = SpikeTimesSeconds(last)
            /\ Len(k_out.these_spike_clusters) = Len(k_clusters)
            /\ \A original \in {SpikeClusters(last)} :
               \A i \in DOMAIN original :
                 /\ (k_out.these_spike_clusters[i] = 0 - 1)
                      <=> (k_seconds[i] < lo \/ k_seconds[i] > hi)
                 /\ ~(k_seconds[i] < lo \/ k_seconds[i] > hi)
                      => k_out.these_spike_clusters[i] = original[i]
            /\ times = SelectSeq(k_spikes, LAMBDA t : t >= lo /\ t <= hi)
            /\ Len(amps) = Len(times)
            /\ \A j \in DOMAIN times : amps[j] = AmplitudeAt(times[j])

\* a span that leaves spikes of the unit and of other units on both sides
C20_Witness ==
    /\ k_pc = "out"
    /\ \E i \in DOMAIN k_seconds : k_seconds[i] < k_out.use_this_time_start
    /\ \E i \in DOMAIN k_seconds : k_seconds[i] > k_out.use_this_time_end
    /\ \E i \in DOMAIN k_clusters :
         k_clusters[i] # ThisUnit /\ k_out.these_spike_clusters[i] = 0 - 1
    /\ Len(k_out.these_spike_times) > 1
    /\ Len(k_out.these_spike_times) < Len(k_spikes)

\* ---- SpecDrift ---------------------------------------------------------

\* C19: every unit with at least two distinct spike times gets at least two
\* bins of median depth, also when its lifetime is at most twice the
\* configured drift_bin_size.
C19_AtLeastTwoBins ==
    (dr_pc \in {"loop", "returned"} /\ Cardinality(dr_times) >= 2)
        => Len(median_spike_depth) >= 2

====
